---- MODULE Spec2Model ----
(***************************************************************************)
(* Fibonacci-Friend: the analytical engine (src/src/lib/fibonacci-logic.ts *)
(* and src/src/lib/backtest-logic.ts) as a state machine.                  *)
(*                                                                         *)
(* Numbers.  Every price the engine reads from a bar, and every price it   *)
(* stores after parseFloat(x.toFixed(2)), is the IEEE-754 binary64 number  *)
(* nearest to n/100 for an integer n of cents.  Such a number is held in   *)
(* the state as n.  The arithmetic between them is binary64 arithmetic and *)
(* is modelled bit for bit (round to nearest, ties to even) on exact       *)
(* naturals kept as sequences of 15-bit limbs: FromCents, FAdd, FMul,      *)
(* FDiv, ToFixed2 below.                                                   *)
(***************************************************************************)
EXTENDS Integers, Sequences, FiniteSets, TLC

(***************************************************************************)
(* Exact naturals: little-endian limbs, no leading zero limb, 0 is <<>>.   *)
(***************************************************************************)
BASE == 32768

LIMB_BITS == 15

MANT_BITS == 53

RECURSIVE BN(_)
BN(n) == IF n = 0 THEN <<>> ELSE <<n % BASE>> \o BN(n \div BASE)

RECURSIVE BToInt(_)
BToInt(a) == IF a = <<>> THEN 0 ELSE Head(a) + BASE * BToInt(Tail(a))

RECURSIVE BTrim(_)
BTrim(a) ==
  IF a = <<>> THEN <<>>
  ELSE IF a[Len(a)] = 0 THEN BTrim(SubSeq(a, 1, Len(a) - 1)) ELSE a

RECURSIVE BAddC(_, _, _)
BAddC(a, b, c) ==
  IF a = <<>> /\ b = <<>> THEN (IF c = 0 THEN <<>> ELSE <<c>>)
  ELSE LET x == IF a = <<>> THEN 0 ELSE Head(a)
           y == IF b = <<>> THEN 0 ELSE Head(b)
           s == x + y + c
       IN  <<s % BASE>> \o BAddC(IF a = <<>> THEN <<>> ELSE Tail(a),
                                 IF b = <<>> THEN <<>> ELSE Tail(b),
                                 s \div BASE)

BAdd(a, b) == BAddC(a, b, 0)

RECURSIVE BSubB(_, _, _)
BSubB(a, b, w) ==
  IF a = <<>> THEN <<>>
  ELSE LET y == IF b = <<>> THEN 0 ELSE Head(b)
           d == Head(a) - y - w
       IN  <<IF d < 0 THEN d + BASE ELSE d>>
             \o BSubB(Tail(a), IF b = <<>> THEN <<>> ELSE Tail(b),
                      IF d < 0 THEN 1 ELSE 0)

\* a - b for a >= b
BSub(a, b) == BTrim(BSubB(a, b, 0))

RECURSIVE BCmpTop(_, _, _)
BCmpTop(a, b, k) ==
  IF k = 0 THEN 0
  ELSE IF a[k] > b[k] THEN 1
  ELSE IF a[k] < b[k] THEN -1
  ELSE BCmpTop(a, b, k - 1)

\* -1, 0, 1 as a < b, a = b, a > b
BCmp(a, b) ==
  IF Len(a) > Len(b) THEN 1
  ELSE IF Len(a) < Len(b) THEN -1
  ELSE BCmpTop(a, b, Len(a))

RECURSIVE BMulSmallC(_, _, _)
BMulSmallC(a, k, c) ==
  IF a = <<>> THEN (IF c = 0 THEN <<>> ELSE <<c>>)
  ELSE LET p == Head(a) * k + c
       IN  <<p % BASE>> \o BMulSmallC(Tail(a), k, p \div BASE)

\* a * k for 0 <= k < BASE
BMulSmall(a, k) == BTrim(BMulSmallC(a, k, 0))

RECURSIVE BMul(_, _)
BMul(a, b) ==
  IF a = <<>> \/ b = <<>> THEN <<>>
  ELSE BAdd(BMulSmall(a, Head(b)),
            LET r == BMul(a, Tail(b)) IN IF r = <<>> THEN <<>> ELSE <<0>> \o r)

RECURSIVE BDivSmallR(_, _)
BDivSmallR(a, d) ==
  IF a = <<>> THEN [q |-> <<>>, r |-> 0]
  ELSE LET hi  == BDivSmallR(Tail(a), d)
           cur == hi.r * BASE + Head(a)
       IN  [q |-> <<cur \div d>> \o hi.q, r |-> cur % d]

\* floor(a / d) for 0 < d <= BASE
BDivSmall(a, d) == BTrim(BDivSmallR(a, d).q)

BModSmall(a, d) == BDivSmallR(a, d).r

Zeros(n) == [i \in 1..n |-> 0]

\* a * 2^k
BShl(a, k) ==
  IF a = <<>> THEN <<>>
  ELSE Zeros(k \div LIMB_BITS) \o BMulSmall(a, 2^(k % LIMB_BITS))

\* floor(a / 2^k)
BShr(a, k) ==
  IF k \div LIMB_BITS >= Len(a) THEN <<>>
  ELSE BDivSmall(SubSeq(a, (k \div LIMB_BITS) + 1, Len(a)), 2^(k % LIMB_BITS))

RECURSIVE IntBitLen(_)
IntBitLen(n) == IF n = 0 THEN 0 ELSE 1 + IntBitLen(n \div 2)

BBitLen(a) ==
  IF a = <<>> THEN 0 ELSE LIMB_BITS * (Len(a) - 1) + IntBitLen(a[Len(a)])

BOdd(a) == a # <<>> /\ Head(a) % 2 = 1

BBit(a, k) == (a[(k \div LIMB_BITS) + 1] \div 2^(k % LIMB_BITS)) % 2

\* one step of long division: bit k of a is brought down
BDivBit(a, b, k, h) ==
  LET r2 == BAddC(h.r, h.r, BBit(a, k))
      ge == BCmp(r2, b) >= 0
  IN  [q |-> BAddC(h.q, h.q, IF ge THEN 1 ELSE 0),
       r |-> IF ge THEN BSub(r2, b) ELSE r2]

\* long division over the bits top, top - 1, .. k of a, in that order, from
\* the partial result h (the range is halved and its upper half evaluated
\* before the lower is entered, which keeps the evaluation shallow)
RECURSIVE BLongDiv(_, _, _, _, _)
BLongDiv(a, b, k, top, h) ==
  IF k > top THEN h
  ELSE IF k = top THEN BDivBit(a, b, k, h)
  ELSE LET mid   == (k + top) \div 2
           upper == BLongDiv(a, b, mid + 1, top, h)
       IN  IF upper = upper THEN BLongDiv(a, b, k, mid, upper) ELSE upper

\* [q, r] with a = q * b + r, 0 <= r < b, for b # 0
BDivMod(a, b) ==
  IF Len(b) = 1
    THEN LET h == BDivSmallR(a, b[1]) IN [q |-> BTrim(h.q), r |-> BN(h.r)]
    ELSE BLongDiv(a, b, 0, BBitLen(a) - 1, [q |-> <<>>, r |-> <<>>])

(***************************************************************************)
(* binary64 values: (-1)^neg * m * 2^e with m an exact natural of at most  *)
(* 53 bits (or 2^53).  The exponent range of binary64 is never approached  *)
(* by prices, so overflow and subnormals do not arise.                     *)
(***************************************************************************)
FZero == [neg |-> FALSE, m |-> <<>>, e |-> 0]

FInt(n) == [neg |-> n < 0, m |-> BN(IF n < 0 THEN -n ELSE n), e |-> 0]

\* rq kept, and one more when the part cut off is above the half (rc > 0) or
\* is the half and rq is odd
FRoundUp(sgn, rq, rc, ex) ==
  [neg |-> sgn,
   m   |-> IF rc > 0 \/ (rc = 0 /\ BOdd(rq)) THEN BAddC(rq, <<>>, 1) ELSE rq,
   e   |-> ex]

\* rq is mag without its lowest rs bits; the bits cut off against the half
FRoundCut(sgn, mag, rs, rq, ex) ==
  FRoundUp(sgn, rq, BCmp(BSub(mag, BShl(rq, rs)), BShl(<<1>>, rs - 1)), ex)

\* the binary64 nearest to (-1)^sgn * mag * 2^ex, ties to even
FRound(sgn, mag, ex) ==
  IF mag = <<>> THEN [neg |-> sgn, m |-> <<>>, e |-> 0]
  ELSE IF BBitLen(mag) <= MANT_BITS THEN [neg |-> sgn, m |-> mag, e |-> ex]
  ELSE FRoundCut(sgn, mag, BBitLen(mag) - MANT_BITS,
                 BShr(mag, BBitLen(mag) - MANT_BITS),
                 ex + BBitLen(mag) - MANT_BITS)

FNeg(x) == [x EXCEPT !.neg = ~x.neg]

FAbs(x) == [x EXCEPT !.neg = FALSE]

FMin(i, j) == IF i < j THEN i ELSE j

\* the sum of two magnitudes of opposite signs, ac their comparison
FAddOpposite(xneg, ax, yneg, ay, ac, ae) ==
  IF ac = 0 THEN FZero
  ELSE FRound(IF ac > 0 THEN xneg ELSE yneg,
              IF ac > 0 THEN BSub(ax, ay) ELSE BSub(ay, ax), ae)

\* the sum of (-1)^xneg * ax * 2^ae and (-1)^yneg * ay * 2^ae
FAddAligned(xneg, ax, yneg, ay, ae) ==
  IF xneg = yneg THEN FRound(xneg, BAdd(ax, ay), ae)
  ELSE FAddOpposite(xneg, ax, yneg, ay, BCmp(ax, ay), ae)

FAddAt(x, y, ae) ==
  FAddAligned(x.neg, BShl(x.m, x.e - ae), y.neg, BShl(y.m, y.e - ae), ae)

\* x + y
FAdd(x, y) ==
  IF x.m = <<>> THEN y
  ELSE IF y.m = <<>> THEN x
  ELSE FAddAt(x, y, FMin(x.e, y.e))

\* x - y
FSub(x, y) == FAdd(x, FNeg(y))

\* x * y
FMul(x, y) == FRound(x.neg # y.neg, BMul(x.m, y.m), x.e + y.e)

\* x / y for y # 0: the quotient is taken to at least 56 bits with a sticky
\* bit for the remainder, then rounded once
FDivSticky(sgn, qr, ex) ==
  FRound(sgn, BAddC(qr.q, qr.q, IF qr.r = <<>> THEN 0 ELSE 1), ex)

FDivShifted(x, y, dk) ==
  FDivSticky(x.neg # y.neg, BDivMod(BShl(x.m, dk), y.m), x.e - y.e - dk - 1)

FDivShift(dd) == IF dd > 0 THEN dd ELSE 0

FDiv(x, y) ==
  IF x.m = <<>> THEN [neg |-> x.neg # y.neg, m |-> <<>>, e |-> 0]
  ELSE FDivShifted(x, y, FDivShift(MANT_BITS + 3 + BBitLen(y.m) - BBitLen(x.m)))

\* sign of x - y: -1, 0, 1
FCmp(x, y) ==
  LET sx == IF x.m = <<>> THEN 0 ELSE IF x.neg THEN -1 ELSE 1
      sy == IF y.m = <<>> THEN 0 ELSE IF y.neg THEN -1 ELSE 1
      ce == FMin(x.e, y.e)
  IN  IF sx # sy THEN (IF sx > sy THEN 1 ELSE -1)
      ELSE IF sx = 0 THEN 0
      ELSE sx * BCmp(BShl(x.m, x.e - ce), BShl(y.m, y.e - ce))

\* a decimal literal or JSON number n/100: the binary64 nearest to it
FromCents(n) == FDiv(FInt(n), FInt(100))

\* a decimal literal n/1000
FromMilli(n) == FDiv(FInt(n), FInt(1000))

\* Number.prototype.toFixed(digits), as the integer it prints without the
\* point: the n with n / 10^digits - |x| closest to zero, the larger n on a
\* tie, signed as x
ToFixedAbs(x, tp) ==
  IF x.m = <<>> THEN 0
  ELSE IF x.e >= 0 THEN BToInt(BShl(BMulSmall(x.m, tp), x.e))
  ELSE BToInt(BShr(BAdd(BMulSmall(x.m, 2 * tp), BShl(<<1>>, -x.e)), 1 - x.e))

ToFixedSigned(neg, tn) == IF neg THEN -tn ELSE tn

ToFixed(x, digits) == ToFixedSigned(x.neg, ToFixedAbs(x, 10^digits))

ToFixed2(x) == ToFixed(x, 2)

(***************************************************************************)
(* Strings and dates.  A string is the sequence of its UTF-16 code units;  *)
(* a bar's date is the "YYYY-MM-DD" string of a calendar day.              *)
(***************************************************************************)
RECURSIVE StrLt(_, _)
\* the < of two strings: code unit by code unit, a proper prefix first
StrLt(s, t) ==
  IF t = <<>> THEN FALSE
  ELSE IF s = <<>> THEN TRUE
  ELSE IF Head(s) # Head(t) THEN Head(s) < Head(t)
  ELSE StrLt(Tail(s), Tail(t))

\* String.prototype.toUpperCase on ASCII letters
ToUpperCase(s) == [k \in 1..Len(s) |-> IF s[k] >= 97 /\ s[k] <= 122 THEN s[k] - 32 ELSE s[k]]

CHAR_0 == 48

CHAR_DASH == 45

Pad2(n) == <<CHAR_0 + (n \div 10), CHAR_0 + (n % 10)>>

Pad4(n) == Pad2(n \div 100) \o Pad2(n % 100)

\* the date string of the calendar day <<y, m, d>>
IsoDate(ymd) == Pad4(ymd[1]) \o <<CHAR_DASH>> \o Pad2(ymd[2]) \o <<CHAR_DASH>> \o Pad2(ymd[3])

MonthDays(y, m) ==
  IF m = 2 THEN (IF y % 4 = 0 /\ (y % 100 # 0 \/ y % 400 = 0) THEN 29 ELSE 28)
  ELSE IF m \in {4, 6, 9, 11} THEN 30 ELSE 31

FIRST_YEAR == 2024

RECURSIVE DayFrom(_, _, _)
DayFrom(y, m, k) ==
  IF k < MonthDays(y, m) THEN <<y, m, k + 1>>
  ELSE IF m = 12 THEN DayFrom(y + 1, 1, k - MonthDays(y, m))
  ELSE DayFrom(y, m + 1, k - MonthDays(y, m))

\* the calendar day k days after 1 January of FIRST_YEAR
CalendarDay(k) == DayFrom(FIRST_YEAR, 1, k)

(***************************************************************************)
(* fibonacci-logic.ts                                                      *)
(***************************************************************************)
\* a HistoricalPrice; open and volume are read by no function of the engine
Bar(date, high, low, close) ==
  [date |-> date, high |-> high, low |-> low, close |-> close]

\* a number that may be -Infinity or Infinity: inf is -1, 0 (finite: c cents), 1
NegInfinity == [inf |-> -1, c |-> 0]

PosInfinity == [inf |-> 1, c |-> 0]

Fin(c) == [inf |-> 0, c |-> c]

NumGt(a, b) == IF a.inf # b.inf THEN a.inf > b.inf ELSE a.inf = 0 /\ a.c > b.c

NumLt(a, b) == NumGt(b, a)

UNDEFINED == -1

\* the message of the Error thrown; in the messages of this module " - "
\* stands for the source's em dash
EmptyError == [threw |-> "Price data is empty - cannot detect swings."]

Threw(r) == "threw" \in DOMAIN r

\* the scan step with >= and <= in place of > and <: the last bar of a tie
\* would win
GlobalStepLast(acc, bar) ==
  [swingHigh |-> IF ~NumLt(Fin(bar.high), acc.swingHigh.price)
                   THEN [price |-> Fin(bar.high), date |-> bar.date]
                   ELSE acc.swingHigh,
   swingLow  |-> IF ~NumGt(Fin(bar.low), acc.swingLow.price)
                   THEN [price |-> Fin(bar.low), date |-> bar.date]
                   ELSE acc.swingLow]

\* one iteration of the scan over the full dataset
GlobalStep(acc, bar) ==
  [swingHigh |-> IF NumGt(Fin(bar.high), acc.swingHigh.price)
                   THEN [price |-> Fin(bar.high), date |-> bar.date]
                   ELSE acc.swingHigh,
   swingLow  |-> IF NumLt(Fin(bar.low), acc.swingLow.price)
                   THEN [price |-> Fin(bar.low), date |-> bar.date]
                   ELSE acc.swingLow]

SwingInit ==
  [swingHigh |-> [price |-> NegInfinity, date |-> <<>>],
   swingLow  |-> [price |-> PosInfinity, date |-> <<>>]]

RECURSIVE GlobalScan(_, _, _, _)
\* the for-of loop over the bars lo .. hi (1-based), in that order, from acc
\* (the range is halved and its first half evaluated before the second is
\* entered, which keeps the evaluation shallow)
GlobalScan(ps, acc, lo, hi) ==
  IF lo > hi THEN acc
  ELSE IF lo = hi THEN GlobalStep(acc, ps[lo])
  ELSE LET mid  == (lo + hi) \div 2
           left == GlobalScan(ps, acc, lo, mid)
       IN  IF left = left THEN GlobalScan(ps, left, mid + 1, hi) ELSE left

\* window.every(...) for the bar at 0-based index i
IsWindowHigh(ps, lookback, idx) ==
  \A j \in (idx - lookback + 1)..(idx + lookback + 1) :
     ps[idx + 1].high >= ps[j].high

IsWindowLow(ps, lookback, idx) ==
  \A j \in (idx - lookback + 1)..(idx + lookback + 1) :
     ps[idx + 1].low <= ps[j].low

\* the rolling step with >= and <= in place of > and <: the last candidate
\* of a tie
RollingStepLast(ps, lookback, idx, acc) ==
  LET bar == ps[idx + 1]
  IN  [swingHigh |-> IF /\ IsWindowHigh(ps, lookback, idx)
                        /\ ~NumLt(Fin(bar.high), acc.swingHigh.price)
                       THEN [price |-> Fin(bar.high), date |-> bar.date]
                       ELSE acc.swingHigh,
       swingLow  |-> IF /\ IsWindowLow(ps, lookback, idx)
                        /\ ~NumGt(Fin(bar.low), acc.swingLow.price)
                       THEN [price |-> Fin(bar.low), date |-> bar.date]
                       ELSE acc.swingLow]

\* one iteration of the rolling loop, at the 0-based index idx
RollingStep(ps, lookback, idx, acc) ==
  LET bar == ps[idx + 1]
  IN  [swingHigh |-> IF /\ IsWindowHigh(ps, lookback, idx)
                        /\ NumGt(Fin(bar.high), acc.swingHigh.price)
                       THEN [price |-> Fin(bar.high), date |-> bar.date]
                       ELSE acc.swingHigh,
       swingLow  |-> IF /\ IsWindowLow(ps, lookback, idx)
                        /\ NumLt(Fin(bar.low), acc.swingLow.price)
                       THEN [price |-> Fin(bar.low), date |-> bar.date]
                       ELSE acc.swingLow]

RECURSIVE RollingScan(_, _, _, _, _)
\* the iterations lo .. hi (0-based) of the rolling loop, in that order, from
\* acc, halved as in GlobalScan
RollingScan(ps, lookback, acc, lo, hi) ==
  IF lo > hi THEN acc
  ELSE IF lo = hi THEN RollingStep(ps, lookback, lo, acc)
  ELSE LET mid  == (lo + hi) \div 2
           left == RollingScan(ps, lookback, acc, lo, mid)
       IN  IF left = left THEN RollingScan(ps, lookback, left, mid + 1, hi) ELSE left

RECURSIVE ReduceHighLast(_, _, _, _)
\* the fold with >= in place of >: the last bar of a tie
ReduceHighLast(ps, best, lo, hi) ==
  IF lo > hi THEN best
  ELSE IF lo = hi THEN (IF ps[lo].high >= best.high THEN ps[lo] ELSE best)
  ELSE LET mid  == (lo + hi) \div 2
           left == ReduceHighLast(ps, best, lo, mid)
       IN  IF left = left THEN ReduceHighLast(ps, left, mid + 1, hi) ELSE left

RECURSIVE ReduceHigh(_, _, _, _)
\* prices.reduce((a, b) => (b.high > a.high ? b : a)): the bars lo .. hi
\* (1-based) folded in that order into best
ReduceHigh(ps, best, lo, hi) ==
  IF lo > hi THEN best
  ELSE IF lo = hi THEN (IF ps[lo].high > best.high THEN ps[lo] ELSE best)
  ELSE LET mid  == (lo + hi) \div 2
           left == ReduceHigh(ps, best, lo, mid)
       IN  IF left = left THEN ReduceHigh(ps, left, mid + 1, hi) ELSE left

RECURSIVE ReduceLow(_, _, _, _)
ReduceLow(ps, best, lo, hi) ==
  IF lo > hi THEN best
  ELSE IF lo = hi THEN (IF ps[lo].low < best.low THEN ps[lo] ELSE best)
  ELSE LET mid  == (lo + hi) \div 2
           left == ReduceLow(ps, best, lo, mid)
       IN  IF left = left THEN ReduceLow(ps, left, mid + 1, hi) ELSE left

\* the rolling scan returned as it ends, the fallback left out
detectSwingPointsRollingNoFallback(prices, lookback) ==
  RollingScan(prices, lookback, SwingInit, lookback, Len(prices) - lookback - 1)

\* the loop runs for (i = lookback; i < prices.length - lookback; i++)
detectSwingPointsRolling(prices, lookback) ==
  LET found == RollingScan(prices, lookback, SwingInit, lookback,
                           Len(prices) - lookback - 1)
      bestH == ReduceHigh(prices, prices[1], 2, Len(prices))
      bestL == ReduceLow(prices, prices[1], 2, Len(prices))
  IN  [swingHigh |-> IF found.swingHigh.price = NegInfinity
                       THEN [price |-> Fin(bestH.high), date |-> bestH.date]
                       ELSE found.swingHigh,
       swingLow  |-> IF found.swingLow.price = PosInfinity
                       THEN [price |-> Fin(bestL.low), date |-> bestL.date]
                       ELSE found.swingLow]

\* the empty test left out, the scan falling through to its initial value
detectSwingPointsNoThrow(prices, lookback) ==
  IF Len(prices) = 0 THEN SwingInit
  ELSE IF lookback # UNDEFINED THEN detectSwingPointsRolling(prices, lookback)
  ELSE GlobalScan(prices, SwingInit, 1, Len(prices))

\* lookback is UNDEFINED when the argument is omitted
detectSwingPoints(prices, lookback) ==
  IF Len(prices) = 0 THEN EmptyError
  ELSE IF lookback # UNDEFINED THEN detectSwingPointsRolling(prices, lookback)
  ELSE GlobalScan(prices, SwingInit, 1, Len(prices))

\* the comparison with <= in place of <: equal dates would be an uptrend
detectTrendLoose(swing) ==
  IF ~StrLt(swing.swingHigh.date, swing.swingLow.date) THEN "uptrend" ELSE "downtrend"

detectTrend(swing) ==
  IF StrLt(swing.swingLow.date, swing.swingHigh.date) THEN "uptrend" ELSE "downtrend"

\* the table with the halfway point given the light of the shallow levels
FIB_RATIOS_GREEN_HALF ==
  << [ratio |-> 236, label |-> "23.6%", friendlyName |-> "Shallow Pullback",  trafficLight |-> "success"],
     [ratio |-> 382, label |-> "38.2%", friendlyName |-> "Moderate Pullback", trafficLight |-> "success"],
     [ratio |-> 500, label |-> "50.0%", friendlyName |-> "Halfway Point",     trafficLight |-> "success"],
     [ratio |-> 618, label |-> "61.8%", friendlyName |-> "The Sweet Spot",    trafficLight |-> "warning"],
     [ratio |-> 786, label |-> "78.6%", friendlyName |-> "Deep Pullback",     trafficLight |-> "danger"] >>

\* ratio is held in thousandths: the literal 0.236 is FromMilli(236)
FIB_RATIOS ==
  << [ratio |-> 236, label |-> "23.6%", friendlyName |-> "Shallow Pullback",  trafficLight |-> "success"],
     [ratio |-> 382, label |-> "38.2%", friendlyName |-> "Moderate Pullback", trafficLight |-> "success"],
     [ratio |-> 500, label |-> "50.0%", friendlyName |-> "Halfway Point",     trafficLight |-> "warning"],
     [ratio |-> 618, label |-> "61.8%", friendlyName |-> "The Sweet Spot",    trafficLight |-> "warning"],
     [ratio |-> 786, label |-> "78.6%", friendlyName |-> "Deep Pullback",     trafficLight |-> "danger"] >>

GOLDEN_RATIO == 618

\* the downtrend formula taken in both trends
LevelRawOneWay(high, low, diff, trend, ratio) == FAdd(low, FMul(diff, ratio))

\* the retracement measured outward: a sign slip in both formulas
LevelRawOutward(high, low, diff, trend, ratio) ==
  IF trend = "uptrend" THEN FAdd(high, FMul(diff, ratio))
  ELSE FSub(low, FMul(diff, ratio))

\* trend === "uptrend" ? high - diff * ratio : low + diff * ratio
LevelRaw(high, low, diff, trend, ratio) ==
  IF trend = "uptrend" THEN FSub(high, FMul(diff, ratio))
  ELSE FAdd(low, FMul(diff, ratio))

\* a range of zero replaced by a range of 1.00
LevelDiffNonZero(high, low, trend, ratio) ==
  LevelRaw(high, low, IF FCmp(high, low) = 0 THEN FromCents(100) ELSE FSub(high, low),
           trend, ratio)

\* const diff = high - low
LevelDiff(high, low, trend, ratio) ==
  LevelRaw(high, low, FSub(high, low), trend, ratio)

\* the price of one level, in cents, for the binary64 numbers high and low:
\* parseFloat((...).toFixed(2))
LevelPriceOf(high, low, trend, ratio) ==
  ToFixed2(LevelDiff(high, low, trend, FromMilli(ratio)))

\* the same for a high and a low of whole cents
LevelPrice(high, low, trend, ratio) ==
  LevelPriceOf(FromCents(high), FromCents(low), trend, ratio)

\* calculateFibLevels for the binary64 numbers high and low
calculateFibLevelsOf(high, low, trend) ==
  [k \in 1..Len(FIB_RATIOS) |->
     [ratio        |-> FIB_RATIOS[k].ratio,
      label        |-> FIB_RATIOS[k].label,
      friendlyName |-> FIB_RATIOS[k].friendlyName,
      price        |-> LevelPriceOf(high, low, trend, FIB_RATIOS[k].ratio),
      isGoldenZone |-> FIB_RATIOS[k].ratio = GOLDEN_RATIO,
      trafficLight |-> FIB_RATIOS[k].trafficLight]]

\* calculateFibLevels for a high and a low of whole cents, as the swing
\* points of bars quoted in cents are
calculateFibLevels(high, low, trend) ==
  calculateFibLevelsOf(FromCents(high), FromCents(low), trend)

\* levels.find((l) => l.isGoldenZone): the first such level
FindGolden(levels) ==
  levels[CHOOSE k \in 1..Len(levels) :
           /\ levels[k].isGoldenZone
           /\ \A j \in 1..(k - 1) : ~levels[j].isGoldenZone]

\* the comparison with > in place of >=: a price on the level would fall
\* through to the next branch
Above(currentPrice, level) == currentPrice > level.price

\* currentPrice >= level.price
AtOrAbove(currentPrice, level) == currentPrice >= level.price

\* the downtrend comparison turned round
AtOrBelowFlipped(currentPrice, level) == currentPrice >= level.price

\* currentPrice <= level.price
AtOrBelow(currentPrice, level) == currentPrice <= level.price

determineSignal(currentPrice, levels, trend) ==
  LET shallow == levels[1]
      golden  == FindGolden(levels)
  IN  IF trend = "uptrend"
        THEN IF AtOrAbove(currentPrice, shallow)
               THEN [signal |-> "success",
                     reason |-> "Price is holding above the shallow pullback - momentum is historically strong here."]
             ELSE IF AtOrAbove(currentPrice, golden)
               THEN [signal |-> "warning",
                     reason |-> "Price is near the Sweet Spot (61.8 %). Historically, this is a make-or-break level - wait for confirmation."]
             ELSE [signal |-> "danger",
                   reason |-> "Price has dropped past the Sweet Spot - the pullback is deep and momentum is likely fading."]
      ELSE IF AtOrBelow(currentPrice, shallow)
        THEN [signal |-> "danger",
              reason |-> "Price is still near The Floor with weak bounce energy - the downtrend is likely continuing."]
      ELSE IF AtOrBelow(currentPrice, golden)
        THEN [signal |-> "warning",
              reason |-> "Price is bouncing toward the Sweet Spot. Historically, sellers often step back in here - wait and watch."]
      ELSE [signal |-> "success",
            reason |-> "Price has bounced strongly past the Sweet Spot - momentum is shifting and a reversal is likely forming."]

\* the two digits of s at positions k, k + 1 (1-based), as a number
ParseDigits2(s, k) == (s[k] - CHAR_0) * 10 + (s[k + 1] - CHAR_0)

\* month: "short" of the en-US locale
MONTH_SHORT ==
  << <<74, 97, 110>>, <<70, 101, 98>>,  <<77, 97, 114>>, <<65, 112, 114>>,
     <<77, 97, 121>>, <<74, 117, 110>>, <<74, 117, 108>>, <<65, 117, 103>>,
     <<83, 101, 112>>, <<79, 99, 116>>, <<78, 111, 118>>, <<68, 101, 99>> >>

\* day: "numeric"
DayNumeric(d) == IF d < 10 THEN <<CHAR_0 + d>> ELSE Pad2(d)

\* new Date(iso + "T00:00:00").toLocaleDateString("en-US", ...): the local
\* day of a local midnight, as "Jan 3, 2022"
friendlyDate(iso) ==
  MONTH_SHORT[ParseDigits2(iso, 6)] \o <<32>> \o DayNumeric(ParseDigits2(iso, 9))
    \o <<44, 32>> \o Pad4(ParseDigits2(iso, 1) * 100 + ParseDigits2(iso, 3))

\* the narrative, held as the template taken and its holes; a price hole is
\* price.toFixed(2) in cents
getTrendNarrative(trend, high, low) ==
  [template   |-> IF trend = "uptrend" THEN "Growth Era" ELSE "Cooling Off",
   peakDate   |-> friendlyDate(high.date),
   floorDate  |-> friendlyDate(low.date),
   peakPrice  |-> ToFixed2(FromCents(high.price.c)),
   floorPrice |-> ToFixed2(FromCents(low.price.c))]

\* the swing detection run in rolling mode
SwingOfSeriesRolling(prices) == detectSwingPoints(prices, 1)

\* detectSwingPoints(prices): the lookback omitted
SwingOfSeries(prices) == detectSwingPoints(prices, UNDEFINED)

\* parseFloat((swing.swingHigh.price - swing.swingLow.price).toFixed(2))
AnalyzeRange(high, low) == ToFixed2(FSub(FromCents(high), FromCents(low)))

\* the object analyzeTicker returns
AnalyzeResult(tk, swing, trend, levels, verdict, currentPrice) ==
  [ticker        |-> ToUpperCase(tk),
   trend         |-> trend,
   trendFriendly |-> IF trend = "uptrend" THEN "Growth Era" ELSE "Cooling Off",
   high          |-> swing.swingHigh,
   low           |-> swing.swingLow,
   range         |-> AnalyzeRange(swing.swingHigh.price.c, swing.swingLow.price.c),
   levels        |-> levels,
   currentPrice  |-> currentPrice,
   signal        |-> verdict.signal,
   signalReason  |-> verdict.reason,
   narrative     |-> getTrendNarrative(trend, swing.swingHigh, swing.swingLow)]

\* const { signal, reason } = determineSignal(currentPrice, levels, trend)
AnalyzeLevels(tk, swing, trend, levels, currentPrice) ==
  AnalyzeResult(tk, swing, trend, levels,
                determineSignal(currentPrice, levels, trend), currentPrice)

\* the levels computed for the other trend than the one detected
AnalyzeTrendInverted(tk, swing, trend, currentPrice) ==
  AnalyzeLevels(tk, swing, trend,
                calculateFibLevels(swing.swingHigh.price.c, swing.swingLow.price.c,
                                   IF trend = "uptrend" THEN "downtrend" ELSE "uptrend"),
                currentPrice)

\* const levels = calculateFibLevels(swingHigh.price, swingLow.price, trend)
AnalyzeTrend(tk, swing, trend, currentPrice) ==
  AnalyzeLevels(tk, swing, trend,
                calculateFibLevels(swing.swingHigh.price.c, swing.swingLow.price.c, trend),
                currentPrice)

\* const trend = detectTrend(swing); an Error thrown by detectSwingPoints
\* leaves analyzeTicker uncaught
AnalyzeSwing(tk, swing, currentPrice) ==
  IF Threw(swing) THEN swing
  ELSE AnalyzeTrend(tk, swing, detectTrend(swing), currentPrice)

analyzeTicker(tk, prices, currentPrice) ==
  AnalyzeSwing(tk, SwingOfSeries(prices), currentPrice)

(***************************************************************************)
(* backtest-logic.ts                                                       *)
(***************************************************************************)
SWING_WINDOW == 120

SWING_LOOKBACK == 10

\* 0.015, in thousandths
TOUCH_TOLERANCE == 15

OUTCOME_HORIZON == 30

COOLDOWN_BARS == 10

\* the cooldown one bar short
InCooldownShort(idx, last) == last.inf = 0 /\ idx - last.c < COOLDOWN_BARS - 1

\* i - lastTouchIndex < COOLDOWN_BARS, lastTouchIndex possibly -Infinity
InCooldown(idx, last) == last.inf = 0 /\ idx - last.c < COOLDOWN_BARS

\* prices.slice(i - SWING_WINDOW, i) for a 0-based i
TrailingWindowToEnd(ps, idx) == SubSeq(ps, idx - SWING_WINDOW + 1, Len(ps))

TrailingWindow(ps, idx) == SubSeq(ps, idx - SWING_WINDOW + 1, idx)

\* ((futureBar.close - bar.close) / bar.close) * 100
PctOf(futureClose, close) ==
  FMul(FDiv(FSub(futureClose, close), close), FInt(100))

PctChange(futureClose, close) == PctOf(FromCents(futureClose), FromCents(close))

\* the outcome with >= and <= in place of > and <: no change would succeed
OutcomeLoose(trend, pctChange) ==
  IF trend = "uptrend"
    THEN (IF FCmp(pctChange, FZero) >= 0 THEN "success" ELSE "fail")
    ELSE (IF FCmp(pctChange, FZero) <= 0 THEN "success" ELSE "fail")

Outcome(trend, pctChange) ==
  IF trend = "uptrend"
    THEN (IF FCmp(pctChange, FZero) > 0 THEN "success" ELSE "fail")
    ELSE (IF FCmp(pctChange, FZero) < 0 THEN "success" ELSE "fail")

NoTouch == [touch |-> FALSE]

\* the object pushed by touches.push({...})
TouchEntry(bar, future, golden, trend, pctChange) ==
  [touch |-> TRUE,
   entry |-> [date             |-> bar.date,
              touchPrice       |-> bar.close,
              goldenLevelPrice |-> golden.price,
              trend            |-> trend,
              priceAfter30     |-> future.close,
              percentChange    |-> ToFixed(pctChange, 2),
              outcome          |-> Outcome(trend, pctChange)]]

\* the test against the whole range, the tolerance factor left out
OutOfRange(distance, range) == FCmp(distance, range) > 0

\* distance > range * TOUCH_TOLERANCE
OutOfBand(distance, range) ==
  FCmp(distance, FMul(range, FromMilli(TOUCH_TOLERANCE))) > 0

\* the test of the band alone, the test range <= 0 left out
ExamineTouchAnyRange(bar, future, golden, trend, range) ==
  IF OutOfBand(FAbs(FSub(FromCents(bar.close), FromCents(golden.price))),
               range) THEN NoTouch
  ELSE TouchEntry(bar, future, golden, trend, PctChange(future.close, bar.close))

\* if (range <= 0) continue; if (distance > range * TOUCH_TOLERANCE) continue
ExamineTouch(bar, future, golden, trend, range) ==
  IF FCmp(range, FZero) <= 0 THEN NoTouch
  ELSE IF OutOfBand(FAbs(FSub(FromCents(bar.close), FromCents(golden.price))),
                    range) THEN NoTouch
  ELSE TouchEntry(bar, future, golden, trend, PctChange(future.close, bar.close))

\* const golden = levels.find(...); if (!golden) continue; const range = ...
ExamineLevels(bar, future, high, low, trend, levels) ==
  IF \A k \in 1..Len(levels) : ~levels[k].isGoldenZone THEN NoTouch
  ELSE ExamineTouch(bar, future, FindGolden(levels), trend,
                    FSub(FromCents(high), FromCents(low)))

ExamineTrend(bar, future, high, low, trend) ==
  ExamineLevels(bar, future, high, low, trend, calculateFibLevels(high, low, trend))

ExamineSwing(bar, future, swing) ==
  ExamineTrend(bar, future, swing.swingHigh.price.c, swing.swingLow.price.c,
               detectTrend(swing))

\* the horizon bar taken one bar early
ExamineShortHorizon(ps, idx) ==
  ExamineSwing(ps[idx + 1], ps[idx + OUTCOME_HORIZON],
               detectSwingPoints(TrailingWindow(ps, idx), SWING_LOOKBACK))

\* what one iteration of the loop finds at index idx once past the cooldown
\* test: NoTouch, or the touch to push
Examine(ps, idx) ==
  ExamineSwing(ps[idx + 1], ps[idx + OUTCOME_HORIZON + 1],
               detectSwingPoints(TrailingWindow(ps, idx), SWING_LOOKBACK))

\* touches.filter((t) => t.outcome === "success").length
CountSuccess(ts) == Cardinality({k \in 1..Len(ts) : ts[k].outcome = "success"})

\* the fraction printed as it is, the factor 100 left out
WinRateFraction(successes, total) ==
  IF total > 0 THEN ToFixed(FDiv(FInt(successes), FInt(total)), 1)
  ELSE 0

\* parseFloat(((successes / touches.length) * 100).toFixed(1)), in tenths
WinRate(successes, total) ==
  IF total > 0 THEN ToFixed(FMul(FDiv(FInt(successes), FInt(total)), FInt(100)), 1)
  ELSE 0

\* the return value; the summary is held as the template taken and its holes
Aggregate(tk, ps, ts) ==
  LET successes == CountSuccess(ts)
      failures  == Len(ts) - successes
      winRate   == WinRate(successes, Len(ts))
  IN  [ticker    |-> ToUpperCase(tk),
       totalBars |-> Len(ps),
       touches   |-> ts,
       successes |-> successes,
       failures  |-> failures,
       winRate   |-> winRate,
       summary   |-> IF Len(ts) > 0
                       THEN [template |-> "trampoline", successes |-> successes,
                             total |-> Len(ts), winRate |-> winRate,
                             failures |-> failures,
                             plural |-> IF failures = 1 THEN "" ELSE "s"]
                       ELSE [template |-> "none", ticker |-> ToUpperCase(tk)]]

(***************************************************************************)
(* Inputs.                                                                 *)
(***************************************************************************)
\* prices in cents offered to the single functions: 0.01 .. MaxCents/100 and
\* a few quotes of ordinary size
MaxCents == 12

QUOTES == {9001, 10000, 13820, 17640, 20000}

PRICES == (1..MaxCents) \cup QUOTES

\* prices in thousandths offered to calculateFibLevels: PRICES, and prices
\* between two cents, as a quote of three or more decimals is
MaxMilli == 16

FINE_PRICES == {10 * c : c \in PRICES} \cup (1..MaxMilli) \cup {1004, 1005, 100125}

\* current prices offered to determineSignal: within MaxOffset cents of a level
MaxOffset == 1

\* calendar days offered as swing dates: around a month end and a year end
MaxDayGap == 2

DAYS == {0, 8, 9, 30, 31, 365, 365 + MaxDayGap}

\* bars offered to the swing detector, and the longest series of them
MaxBarPrice == 3

MaxSeriesLen == 3

\* the largest price of a bar offered to analyzeTicker
MaxAnalyzePrice == 2

TRENDS == {"uptrend", "downtrend"}

\* the price series offered to the backtest: SWING_WINDOW bars of a shape,
\* then closes that follow a tail around the first window's 61.8 % level
SHAPES == {"waveUp", "waveDown", "rise", "flat", "stairs"}

TAILS == {"hold", "creep", "climb", "slide", "edge", "away", "zigzag"}

MaxLen == 171

LENGTHS ==
  {0, SWING_WINDOW + OUTCOME_HORIZON - 1, SWING_WINDOW + OUTCOME_HORIZON,
   SWING_WINDOW + OUTCOME_HORIZON + 1, MaxLen - COOLDOWN_BARS, MaxLen}

ShapePrice(shape, k) ==
  CASE shape = "waveUp"   -> IF k <= 30 THEN 23000 - 100 * k
                             ELSE IF k <= 90 THEN 20000 + 100 * (k - 30)
                             ELSE 26000 - 100 * (k - 90)
    [] shape = "waveDown" -> IF k <= 30 THEN 23000 + 100 * k
                             ELSE IF k <= 90 THEN 26000 - 100 * (k - 30)
                             ELSE 20000 + 100 * (k - 90)
    [] shape = "rise"     -> 20000 + 100 * k
    [] shape = "flat"     -> 25000

\* bar k of the stairs: the highs peak at 50.00 on bar 15 and rise from bar
\* 26 on, from 101.00; the lows rise from 10.00 and stay at 100.00 from bar
\* 40 on; the close is the low
StairsBar(date, k) ==
  Bar(date,
      IF k <= 15 THEN 4850 + 10 * k ELSE IF k <= 25 THEN 5150 - 10 * k ELSE 9840 + 10 * k,
      IF k < 40 THEN 1000 + 10 * k ELSE 10000,
      IF k < 40 THEN 1000 + 10 * k ELSE 10000)

\* half the height of a bar: the waves swing from 199.00 to 261.00
ShapeSpread(shape) == IF shape = "flat" THEN 0 ELSE 100

\* the 61.8 % level of the first window
ShapeLevel(shape) ==
  CASE shape = "waveUp"   -> 22268
    [] shape = "waveDown" -> 23732
    [] shape = "rise"     -> 24522
    [] shape = "flat"     -> 25000
    [] shape = "stairs"   -> 6910

\* the close of the bar j bars after the first window, against ShapeLevel;
\* edge is 1.5 % of the waves' range of 62.00; zigzag holds the level for
\* OUTCOME_HORIZON bars and then ends every COOLDOWN_BARS bars on the other
\* side of it
TailDelta(tail, j) ==
  CASE tail = "hold"  -> 0
    [] tail = "creep" -> j \div OUTCOME_HORIZON
    [] tail = "climb" -> 2 * j
    [] tail = "slide" -> -(2 * j)
    [] tail = "edge"  -> 93
    [] tail = "away"  -> 3000
    [] tail = "zigzag" -> IF j < OUTCOME_HORIZON THEN 0
                          ELSE IF (j \div COOLDOWN_BARS) % 2 = 1 THEN 5 ELSE -5

SeriesBar(shape, tail, k) ==
  IF shape = "stairs" /\ k < SWING_WINDOW THEN StairsBar(IsoDate(CalendarDay(k)), k)
  ELSE
  LET p == IF k < SWING_WINDOW THEN ShapePrice(shape, k)
           ELSE ShapeLevel(shape) + TailDelta(tail, k - SWING_WINDOW)
  IN  Bar(IsoDate(CalendarDay(k)), p + ShapeSpread(shape), p - ShapeSpread(shape), p)

Series(shape, tail, n) == [k \in 1..n |-> SeriesBar(shape, tail, k - 1)]

TICKERS == {<<65, 97, 112, 108>>}

(***************************************************************************)
(* State.  call is the call in progress of a single function of            *)
(* fibonacci-logic.ts, with its arguments and result; the other variables  *)
(* are the locals of backtestGoldenZone and its return value; earlier is    *)
(* what the call before returned to a caller that calls again with the     *)
(* same arguments.  input is the state of TickerSearch; fibData,            *)
(* dashPrices (the state the source calls prices), isLoading and error are  *)
(* the state of Dashboard, and searches the invocations of handleSearch    *)
(* that wait at an await.  apiKey is the environment of the server,        *)
(* cacheDir and cache are the directory .cache and its files, requests    *)
(* are the calls of getHistoricalPrices that wait at an await, and         *)
(* lastReturn is what the call that returned last resolved to.             *)
(***************************************************************************)
VARIABLES call, pc, ticker, prices, i, lastTouchIndex, touches, result, earlier,
          input, fibData, dashPrices, isLoading, error, searches,
          apiKey, cacheDir, cache, requests, lastReturn

btVars == <<pc, ticker, prices, i, lastTouchIndex, touches, result, earlier>>

dashVars == <<input, fibData, dashPrices, isLoading, error, searches>>

fmpVars == <<apiKey, cacheDir, cache, requests, lastReturn>>

vars == <<call, btVars, dashVars, fmpVars>>

NoCall == [fn |-> "none"]

\* null, and a value that is not null
NULL == [null |-> TRUE]

Some(v) == [some |-> v]

\* the symbols offered to getHistoricalPrices, "Aa", "aa" and "B", and the
\* file names, less ".json", they are cached under
SYMBOLS == {<<65, 97>>, <<97, 97>>, <<66>>}

CACHE_KEYS == {ToUpperCase(s) : s \in SYMBOLS}

NoResult == [returned |-> FALSE]

Init ==
  /\ call = NoCall
  /\ pc = "idle"
  /\ ticker = <<>>
  /\ prices = <<>>
  /\ i = 0
  /\ lastTouchIndex = NegInfinity
  /\ touches = <<>>
  /\ result = NoResult
  /\ earlier = NoResult
  /\ input = <<>>
  /\ fibData = NULL
  /\ dashPrices = NULL
  /\ isLoading = FALSE
  /\ error = NULL
  /\ searches = <<>>
  /\ apiKey = NULL
  /\ cacheDir = FALSE
  /\ cache = [key \in CACHE_KEYS |-> NULL]
  /\ requests = <<>>
  /\ lastReturn = NULL

(***************************************************************************)
(* Calls of the single functions, one at a time.                           *)
(***************************************************************************)
\* high and low are held in thousandths
CallCalculateFibLevels ==
  /\ call = NoCall
  /\ pc = "idle"
  /\ \E high \in FINE_PRICES, low \in FINE_PRICES, trend \in TRENDS :
       /\ high >= low
       /\ call' = [fn |-> "calculateFibLevels", high |-> high, low |-> low,
                   trend |-> trend,
                   result |-> calculateFibLevelsOf(FromMilli(high), FromMilli(low), trend)]
  /\ UNCHANGED <<btVars, dashVars, fmpVars>>

CallDetermineSignal ==
  /\ call = NoCall
  /\ pc = "idle"
  /\ \E high \in PRICES, low \in PRICES, trend \in TRENDS :
       /\ high >= low
       /\ \E levels \in {calculateFibLevels(high, low, trend)} :
            \E k \in 1..Len(levels), d \in (-MaxOffset)..MaxOffset :
               /\ levels[k].price + d > 0
               /\ call' = [fn |-> "determineSignal",
                           currentPrice |-> levels[k].price + d,
                           levels |-> levels, trend |-> trend,
                           result |-> determineSignal(levels[k].price + d, levels, trend)]
  /\ UNCHANGED <<btVars, dashVars, fmpVars>>

CallDetectTrend ==
  /\ call = NoCall
  /\ pc = "idle"
  /\ \E dh \in DAYS, dl \in DAYS, ph \in 1..MaxBarPrice, pl \in 1..MaxBarPrice :
       \E swing \in {[swingHigh |-> [price |-> Fin(ph), date |-> IsoDate(CalendarDay(dh))],
                      swingLow  |-> [price |-> Fin(pl), date |-> IsoDate(CalendarDay(dl))]]} :
          call' = [fn |-> "detectTrend", swing |-> swing, highDay |-> CalendarDay(dh),
                   lowDay |-> CalendarDay(dl), result |-> detectTrend(swing)]
  /\ UNCHANGED <<btVars, dashVars, fmpVars>>

\* every series of at most MaxSeriesLen bars with high and low in
\* 1..MaxBarPrice and low <= high, on consecutive days; the close, which the
\* swing detection does not read, is the low
SmallBars ==
  {hl \in (1..MaxBarPrice) \X (1..MaxBarPrice) : hl[2] <= hl[1]}

SmallSeries ==
  UNION {[1..n -> SmallBars] : n \in 0..MaxSeriesLen}

AsBars(ser) ==
  [k \in 1..Len(ser) |-> Bar(IsoDate(CalendarDay(k - 1)), ser[k][1], ser[k][2], ser[k][2])]

\* longer series for the rolling mode, of bars with high and low in 1..2,
\* so that a lookback of 1 leaves several interior bars
MaxRollingLen == 5

RollingSeries ==
  UNION {[1..n -> {hl \in SmallBars : hl[1] <= 2}] : n \in (MaxSeriesLen + 1)..MaxRollingLen}

\* the series and lookbacks offered to detectSwingPoints
SwingInputs ==
  {<<AsBars(ser), lookback>> : ser \in SmallSeries, lookback \in {UNDEFINED, 0, 1}}
    \cup {<<AsBars(ser), lookback>> : ser \in RollingSeries, lookback \in {1, 2}}

CallDetectSwingPoints ==
  /\ call = NoCall
  /\ pc = "idle"
  /\ \E args \in SwingInputs :
       call' = [fn |-> "detectSwingPoints", prices |-> args[1], lookback |-> args[2],
                result |-> detectSwingPoints(args[1], args[2])]
  /\ UNCHANGED <<btVars, dashVars, fmpVars>>

\* the series offered to analyzeTicker: those of SmallSeries with high and
\* low in 1..MaxAnalyzePrice; the current price is the least or the largest
\* of these prices
AnalyzeSeries ==
  {ser \in SmallSeries : \A k \in 1..Len(ser) : ser[k][1] <= MaxAnalyzePrice}

\* a rising series of n bars from a low of 100.00 to a high of 200.00, every
\* bar 1.00 high: in even steps, or a cent a day and a jump on the last day
RisingSeries(kind, n) ==
  [k \in 1..n |->
     LET low == IF kind = "even" THEN 10000 + (9900 * (k - 1)) \div (n - 1)
                ELSE IF k < n THEN 10000 + (k - 1) ELSE 19900
     IN  Bar(IsoDate(CalendarDay(k - 1)), low + 100, low, low + 50)]

\* the series and current prices offered to analyzeTicker: the small series,
\* and rising series of 2 and of 130 bars with current prices at and next to
\* their levels
AnalyzeInputs ==
  {<<AsBars(ser), p>> : ser \in AnalyzeSeries, p \in {1, MaxAnalyzePrice}}
    \cup {<<RisingSeries(kind, n), p>> :
             kind \in {"even", "late"}, n \in {2, 130},
             p \in {13819, 13820, 17639, 17640, 18000}}

CallAnalyzeTicker ==
  /\ call = NoCall
  /\ pc = "idle"
  /\ \E tk \in TICKERS, args \in AnalyzeInputs :
       call' = [fn |-> "analyzeTicker", ticker |-> tk, prices |-> args[1],
                currentPrice |-> args[2],
                result |-> analyzeTicker(tk, args[1], args[2])]
  /\ UNCHANGED <<btVars, dashVars, fmpVars>>

\* the call in progress returns to its caller
CallReturn ==
  /\ call # NoCall
  /\ call' = NoCall
  /\ UNCHANGED <<btVars, dashVars, fmpVars>>

(***************************************************************************)
(* backtestGoldenZone(ticker, prices), one loop iteration per step.        *)
(***************************************************************************)
\* the touch index of the call before kept, as a variable outside the
\* function would be
KeptLastTouchIndex(left) == left

\* let lastTouchIndex = -Infinity: a local of the call, whatever the call
\* before left
FreshLastTouchIndex(left) == NegInfinity

\* const touches = []: a new array in every call
FreshTouches(left) == <<>>

BtStart ==
  /\ call = NoCall
  /\ pc = "idle"
  /\ \E tk \in TICKERS, shape \in SHAPES, tail \in TAILS, n \in LENGTHS :
       /\ ticker' = tk
       /\ prices' = Series(shape, tail, n)
  /\ touches' = FreshTouches(touches)
  /\ lastTouchIndex' = FreshLastTouchIndex(lastTouchIndex)
  /\ i' = SWING_WINDOW
  /\ result' = NoResult
  /\ earlier' = NoResult
  /\ pc' = "loop"
  /\ UNCHANGED <<call, dashVars, fmpVars>>

\* the caller keeps the result and calls once more with the same ticker and
\* the same array of prices
BtAgain ==
  /\ call = NoCall
  /\ pc = "done"
  /\ ~earlier.returned
  /\ earlier' = result
  /\ touches' = FreshTouches(touches)
  /\ lastTouchIndex' = FreshLastTouchIndex(lastTouchIndex)
  /\ i' = SWING_WINDOW
  /\ result' = NoResult
  /\ pc' = "loop"
  /\ UNCHANGED <<call, ticker, prices, dashVars, fmpVars>>

\* touches.unshift in place of touches.push
Unshift(ts, entry) == <<entry>> \o ts

\* touches.push({...})
Push(ts, entry) == Append(ts, entry)

stopAt == Len(prices) - OUTCOME_HORIZON

BtIterate ==
  /\ pc = "loop"
  /\ i < stopAt
  /\ IF InCooldown(i, lastTouchIndex)
       THEN UNCHANGED <<touches, lastTouchIndex>>
       ELSE \E found \in {Examine(prices, i)} :
              IF found.touch
                THEN /\ touches' = Push(touches, found.entry)
                     /\ lastTouchIndex' = Fin(i)
                ELSE UNCHANGED <<touches, lastTouchIndex>>
  /\ i' = i + 1
  /\ UNCHANGED <<call, pc, ticker, prices, result, earlier, dashVars, fmpVars>>

BtReturn ==
  /\ pc = "loop"
  /\ i >= stopAt
  /\ result' = [returned |-> TRUE, value |-> Aggregate(ticker, prices, touches)]
  /\ pc' = "done"
  /\ UNCHANGED <<call, ticker, prices, i, lastTouchIndex, touches, earlier,
                  dashVars, fmpVars>>

(***************************************************************************)
(* TickerSearch and Dashboard.  The code of handleSearch between two       *)
(* awaits runs to completion as one step.                                  *)
(***************************************************************************)
\* String.prototype.trim on a string whose white space is the blank
Trim(s) ==
  IF \A k \in 1..Len(s) : s[k] = 32 THEN <<>>
  ELSE SubSeq(s, CHOOSE a \in 1..Len(s) : s[a] # 32 /\ \A k \in 1..(a - 1) : s[k] = 32,
                 CHOOSE b \in 1..Len(s) : s[b] # 32 /\ \A k \in (b + 1)..Len(s) : s[k] = 32)

\* what the user types: "", " ", "aa", " B ", "Aa", "b" and "c "
TYPED == {<<>>, <<32>>, <<97, 97>>, <<32, 66, 32>>, <<65, 97>>, <<98>>, <<99, 32>>}

\* the input and the button enabled whatever isLoading is
InputNeverDisabled == FALSE

\* disabled={isLoading}
InputDisabled == isLoading

\* onChange={(e) => setInput(e.target.value.toUpperCase())}
TypeInput ==
  /\ ~InputDisabled
  /\ \E value \in TYPED : input' = ToUpperCase(value)
  /\ UNCHANGED <<call, btVars, fmpVars, fibData, dashPrices, isLoading, error, searches>>

\* submit, by the Enter key or the button, and handleSearch up to its first
\* await: setIsLoading(true); setError(null); fetch(...)
Submit ==
  /\ ~InputDisabled
  /\ ToUpperCase(Trim(input)) # <<>>
  /\ isLoading' = TRUE
  /\ error' = NULL
  /\ searches' = Append(searches, [ticker |-> ToUpperCase(Trim(input)), at |-> "fetch"])
  /\ UNCHANGED <<call, btVars, fmpVars, input, fibData, dashPrices>>

\* the invocations that wait, less the k-th, which has returned
Without(waiting, k) == SubSeq(waiting, 1, k - 1) \o SubSeq(waiting, k + 1, Len(waiting))

\* catch { setError("Something went wrong ...") } finally { setIsLoading(false) }
Caught(k) ==
  /\ error' = Some("Something went wrong - check your connection and try again.")
  /\ isLoading' = FALSE
  /\ searches' = Without(searches, k)
  /\ UNCHANGED <<fibData, dashPrices>>

\* await fetch(...): the promise is fulfilled with a response of any status,
\* or rejected
FetchSettles ==
  /\ \E k \in 1..Len(searches) :
       /\ searches[k].at = "fetch"
       /\ \/ /\ searches' = [searches EXCEPT ![k].at = "json"]
             /\ UNCHANGED <<fibData, dashPrices, isLoading, error>>
          \/ Caught(k)
  /\ UNCHANGED <<call, btVars, fmpVars, input>>

\* the bodies a response carries: an error of the route, neither error nor
\* data, and data of no bar, one bar or two bars
PAYLOADS ==
  {[data |-> NULL, error |-> Some(m)] :
     m \in {"Missing ?symbol= parameter.", "No price history found"}}
    \cup {[data |-> NULL, error |-> NULL]}
    \cup {[data |-> Some(AsBars(ser)), error |-> NULL] :
            ser \in {<<>>, <<<<2, 1>>>>, <<<<1, 1>>, <<2, 2>>>>, <<<<2, 1>>, <<1, 1>>>>}}

\* if (json.error || !json.data) { setError(json.error ?? "No data returned.");
\* setFibData(null); setPrices(null); return; }
OnErrorPayload(k, json) ==
  /\ error' = IF json.error # NULL THEN json.error ELSE Some("No data returned.")
  /\ fibData' = NULL
  /\ dashPrices' = NULL
  /\ isLoading' = FALSE
  /\ searches' = Without(searches, k)

\* priceData[priceData.length - 1].close of an empty array throws a
\* TypeError; else setPrices(priceData); setFibData(analyzeTicker(...))
OnData(k, priceData) ==
  IF Len(priceData) = 0 THEN Caught(k)
  ELSE /\ dashPrices' = Some(priceData)
       /\ fibData' = Some(analyzeTicker(searches[k].ticker, priceData,
                                        priceData[Len(priceData)].close))
       /\ isLoading' = FALSE
       /\ searches' = Without(searches, k)
       /\ UNCHANGED error

\* await res.json(): fulfilled with the body parsed, or rejected
JsonSettles ==
  /\ \E k \in 1..Len(searches) :
       /\ searches[k].at = "json"
       /\ \/ \E json \in PAYLOADS :
               IF json.error # NULL \/ json.data = NULL THEN OnErrorPayload(k, json)
               ELSE OnData(k, json.data.some)
          \/ Caught(k)
  /\ UNCHANGED <<call, btVars, fmpVars, input>>

NextDashboard ==
  \/ TypeInput
  \/ Submit
  \/ FetchSettles
  \/ JsonSettles

(***************************************************************************)
(* getHistoricalPrices(symbol) of fmp-service.ts, on a server that takes   *)
(* a call while others wait at an await.  A file of the cache is held as   *)
(* the value its JSON text denotes.                                        *)
(***************************************************************************)
\* the calls that may wait at the same time
MaxRequests == 2

\* resolve(CACHE_DIR, `${symbol.toUpperCase()}.json`), as the name of the file
cachePath(symbol) == ToUpperCase(symbol)

\* if (!existsSync(file)) return null; return JSON.parse(readFileSync(file))
readCache(symbol) == cache[cachePath(symbol)]

\* the value JSON.parse gives back for the text JSON.stringify(prices, null, 2):
\* a property whose value is undefined is left out
JsonStringify(ps) ==
  [k \in 1..Len(ps) |->
     IF ps[k].volume = UNDEFINED
       THEN [date |-> ps[k].date, open |-> ps[k].open, high |-> ps[k].high,
             low |-> ps[k].low, close |-> ps[k].close]
       ELSE ps[k]]

\* writeFileSync(cachePath(symbol), JSON.stringify(prices, null, 2)): the
\* files after it
writeCache(symbol, ps) == [cache EXCEPT ![cachePath(symbol)] = Some(JsonStringify(ps))]

\* an entry of the provider, with or without its volume
Entry(day, close, volume) ==
  IF volume = UNDEFINED
    THEN [date |-> IsoDate(CalendarDay(day)), open |-> close, high |-> close + 1,
          low |-> close, close |-> close]
    ELSE [date |-> IsoDate(CalendarDay(day)), open |-> close, high |-> close + 1,
          low |-> close, close |-> close, volume |-> volume]

\* the bodies of the provider, newest entry first: no array, an empty array,
\* two days, the same two days with the last close revised, and one day
\* without its volume
FMP_BODIES ==
  {NULL, Some(<<>>), Some(<<Entry(1, 2, 7), Entry(0, 1, 5)>>),
   Some(<<Entry(1, 3, 8), Entry(0, 1, 5)>>), Some(<<Entry(0, 1, UNDEFINED)>>)}

\* json.map((entry) => ({ date: entry.date, ..., volume: entry.volume })).reverse()
MapReverse(json) ==
  [k \in 1..Len(json) |->
     [date   |-> json[Len(json) + 1 - k].date,
      open   |-> json[Len(json) + 1 - k].open,
      high   |-> json[Len(json) + 1 - k].high,
      low    |-> json[Len(json) + 1 - k].low,
      close  |-> json[Len(json) + 1 - k].close,
      volume |-> IF "volume" \in DOMAIN json[Len(json) + 1 - k]
                   THEN json[Len(json) + 1 - k].volume ELSE UNDEFINED]]

\* what a call resolves to, and whether it asked the provider
Resolved(symbol, data, message, fetched) ==
  Some([symbol |-> symbol, data |-> data,
        error |-> IF message = "" THEN NULL ELSE Some(message), fetched |-> fetched])

\* the server started again with NEXT_PUBLIC_FMP_API_KEY set or not set
Restart ==
  /\ apiKey' \in {NULL, Some("key")} \ {apiKey}
  /\ requests' = <<>>
  /\ UNCHANGED <<call, btVars, dashVars, cacheDir, cache, lastReturn>>

\* getHistoricalPrices up to its first await: ensureCacheDir(); the cache
\* check; the API key guard; fetch(url)
GhCall ==
  /\ Len(requests) < MaxRequests
  /\ cacheDir' = TRUE
  /\ \E symbol \in SYMBOLS :
       IF readCache(symbol) # NULL
         THEN /\ lastReturn' = Resolved(symbol, readCache(symbol), "", FALSE)
              /\ UNCHANGED requests
       ELSE IF apiKey = NULL
         THEN /\ lastReturn' = Resolved(symbol, NULL, "We're missing the API key", FALSE)
              /\ UNCHANGED requests
       ELSE /\ requests' = Append(requests, [symbol |-> symbol, at |-> "fetch"])
            /\ UNCHANGED lastReturn
  /\ UNCHANGED <<call, btVars, dashVars, apiKey, cache>>

\* await fetch(url): rejected (the catch block), fulfilled with a status
\* that is not OK, or fulfilled with an OK status
GhFetchSettles ==
  /\ \E k \in 1..Len(requests) :
       /\ requests[k].at = "fetch"
       /\ \/ /\ lastReturn' = Resolved(requests[k].symbol, NULL,
                                         "Something went wrong fetching the data", TRUE)
             /\ requests' = Without(requests, k)
          \/ /\ lastReturn' = Resolved(requests[k].symbol, NULL,
                                         "Couldn't reach the data provider", TRUE)
             /\ requests' = Without(requests, k)
          \/ /\ requests' = [requests EXCEPT ![k].at = "json"]
             /\ UNCHANGED lastReturn
  /\ UNCHANGED <<call, btVars, dashVars, apiKey, cacheDir, cache>>

\* await res.json(): rejected, or fulfilled with a body; no array or an
\* empty one is an error, else the prices are written to the cache and
\* returned
GhJsonSettles ==
  /\ \E k \in 1..Len(requests) :
       /\ requests[k].at = "json"
       /\ requests' = Without(requests, k)
       /\ \/ /\ lastReturn' = Resolved(requests[k].symbol, NULL,
                                         "Something went wrong fetching the data", TRUE)
             /\ UNCHANGED cache
          \/ \E json \in FMP_BODIES :
               IF json = NULL \/ json = Some(<<>>)
                 THEN /\ lastReturn' = Resolved(requests[k].symbol, NULL,
                                                "No price history found", TRUE)
                      /\ UNCHANGED cache
                 ELSE /\ cache' = writeCache(requests[k].symbol, MapReverse(json.some))
                      /\ lastReturn' = Resolved(requests[k].symbol,
                                                Some(MapReverse(json.some)), "", TRUE)
  /\ UNCHANGED <<call, btVars, dashVars, apiKey, cacheDir>>

NextFmp ==
  \/ Restart
  \/ GhCall
  \/ GhFetchSettles
  \/ GhJsonSettles

NextFib ==
  \/ CallCalculateFibLevels
  \/ CallDetermineSignal
  \/ CallDetectTrend
  \/ CallDetectSwingPoints
  \/ CallAnalyzeTicker
  \/ CallReturn

NextBacktest ==
  \/ BtStart
  \/ BtAgain
  \/ BtIterate
  \/ BtReturn

Next == NextFib \/ NextBacktest \/ NextDashboard \/ NextFmp

Spec == Init /\ [][Next]_vars

SpecFib == Init /\ [][NextFib]_vars

SpecBacktest == Init /\ [][NextBacktest]_vars

SpecDashboard == Init /\ [][NextDashboard]_vars

SpecFmp == Init /\ [][NextFmp]_vars

\* a request of the browser ends, by a response or by a failure, and so does
\* the reading of a response's body
SpecDashboardFair ==
  SpecDashboard /\ WF_dashVars(FetchSettles) /\ WF_dashVars(JsonSettles)

\* the control of a step of BtIterate or BtReturn: the loop counter moves on
\* or the function returns
BtProgress ==
  /\ pc = "loop"
  /\ \/ i < stopAt /\ i' = i + 1 /\ pc' = pc
     \/ i >= stopAt /\ i' = i /\ pc' = "done"

\* backtestGoldenZone is synchronous code: once entered, the loop takes its
\* next iteration and the function its return
SpecBacktestFair == SpecBacktest /\ WF_<<pc, i>>(BtProgress)

(***************************************************************************)
(* Properties of the single functions, checked under SpecFib.              *)
(***************************************************************************)
\* the level of a ratio given in thousandths
LevelAt(levels, ratio) ==
  levels[CHOOSE k \in 1..Len(levels) : levels[k].ratio = ratio]

\* C1: determineSignal follows the decision table.  In an uptrend the signal
\* is success when currentPrice >= the 23.6 % level's price, else warning
\* when currentPrice >= the 61.8 % level's price, else danger; in a downtrend
\* it is danger when currentPrice <= the 23.6 % level's price, else warning
\* when currentPrice <= the 61.8 % level's price, else success.
C1_DecisionTable ==
  call.fn = "determineSignal" =>
    LET p       == call.currentPrice
        shallow == LevelAt(call.levels, 236).price
        golden  == LevelAt(call.levels, 618).price
    IN  call.result.signal =
          IF call.trend = "uptrend"
            THEN (IF p >= shallow THEN "success"
                  ELSE IF p >= golden THEN "warning" ELSE "danger")
            ELSE (IF p <= shallow THEN "danger"
                  ELSE IF p <= golden THEN "warning" ELSE "success")

\* an uptrend call with the price exactly on the 61.8 % level, below the
\* 23.6 % level: caution
C1_Witness ==
  /\ call.fn = "determineSignal"
  /\ call.trend = "uptrend"
  /\ call.currentPrice = LevelAt(call.levels, 618).price
  /\ call.currentPrice < LevelAt(call.levels, 236).price
  /\ call.result.signal = "warning"

\* high - (high - low) * r, or low + (high - low) * r, for a high and a low
\* in thousandths, in exact decimal arithmetic (units of 0.000001), rounded
\* half-up to cents
HalfUpCents(high, low, trend, ratio) ==
  LET v == IF trend = "uptrend" THEN high * 1000 - (high - low) * ratio
           ELSE low * 1000 + (high - low) * ratio
  IN  (v + 5000) \div 10000

\* C2: for every high >= low, either trend and each of the five ratios r,
\* the price calculateFibLevels returns is high - (high - low) * r (uptrend)
\* or low + (high - low) * r (downtrend) rounded half-up to 2 decimals.
C2_HalfUp ==
  call.fn = "calculateFibLevels" =>
    \A k \in 1..Len(call.result) :
       call.result[k].price =
         HalfUpCents(call.high, call.low, call.trend, call.result[k].ratio)

\* chronological order of two calendar days
DayBefore(p, q) ==
  \/ p[1] < q[1]
  \/ p[1] = q[1] /\ p[2] < q[2]
  \/ p[1] = q[1] /\ p[2] = q[2] /\ p[3] < q[3]

\* C3: detectTrend returns one of the two trends, and uptrend exactly when
\* swingLow's day is strictly before swingHigh's day; on equal days, or with
\* the high's day first, it returns downtrend.
C3_TrendByDate ==
  call.fn = "detectTrend" =>
    /\ call.result \in TRENDS
    /\ (call.result = "uptrend") <=> DayBefore(call.lowDay, call.highDay)

\* both swing points on the same day: downtrend
C3_Witness ==
  /\ call.fn = "detectTrend"
  /\ call.lowDay = call.highDay
  /\ call.result = "downtrend"

\* the first index of ps whose high is the largest, whose low is the smallest
FirstMaxHigh(ps) ==
  CHOOSE k \in 1..Len(ps) :
    /\ \A j \in 1..Len(ps) : ps[j].high <= ps[k].high
    /\ \A j \in 1..(k - 1) : ps[j].high < ps[k].high

FirstMinLow(ps) ==
  CHOOSE k \in 1..Len(ps) :
    /\ \A j \in 1..Len(ps) : ps[j].low >= ps[k].low
    /\ \A j \in 1..(k - 1) : ps[j].low > ps[k].low

\* C4: on a non-empty series and without a lookback, detectSwingPoints
\* returns as swingHigh the price and date of the first bar whose high is the
\* maximum of the series, and as swingLow the price and date of the first bar
\* whose low is the minimum.
C4_GlobalExtremes ==
  (call.fn = "detectSwingPoints" /\ call.lookback = UNDEFINED /\ Len(call.prices) > 0) =>
    /\ call.result.swingHigh =
         [price |-> Fin(call.prices[FirstMaxHigh(call.prices)].high),
          date  |-> call.prices[FirstMaxHigh(call.prices)].date]
    /\ call.result.swingLow =
         [price |-> Fin(call.prices[FirstMinLow(call.prices)].low),
          date  |-> call.prices[FirstMinLow(call.prices)].date]

\* a series whose maximal high is attained by its first and by its last bar:
\* the first bar's date is returned
C4_Witness ==
  /\ call.fn = "detectSwingPoints"
  /\ call.lookback = UNDEFINED
  /\ Len(call.prices) >= 2
  /\ FirstMaxHigh(call.prices) = 1
  /\ call.prices[Len(call.prices)].high = call.prices[1].high
  /\ call.result.swingHigh.date = call.prices[1].date

\* C11: analyzeTicker, and detectSwingPoints with and without a lookback,
\* called with zero bars fail with the Error of an empty input (the spec's
\* EmptyInputError: "Price data is empty ...") and produce no result.
C11_EmptyInput ==
  (call.fn \in {"detectSwingPoints", "analyzeTicker"} /\ Len(call.prices) = 0) =>
    /\ Threw(call.result)
    /\ DOMAIN call.result = {"threw"}
    /\ call.result = EmptyError

\* analyzeTicker called with no bars has thrown
C11_Witness ==
  /\ call.fn = "analyzeTicker"
  /\ call.prices = <<>>
  /\ Threw(call.result)

\* C12 as claimed: for all high >= low and either trend, each of the five
\* level prices lies within [low, high] inclusive.
C12_LevelsInRange ==
  call.fn = "calculateFibLevels" =>
    \A k \in 1..Len(call.result) :
       /\ call.low <= 10 * call.result[k].price
       /\ 10 * call.result[k].price <= call.high

\* C12 as amended: for all high >= low and either trend, each of the five
\* level prices lies within 0.005 of [low, high], and within [low, high]
\* itself when high and low are whole cents.
C12_LevelsInRoundedRange ==
  call.fn = "calculateFibLevels" =>
    \A k \in 1..Len(call.result) :
       /\ call.low - 5 <= 10 * call.result[k].price
       /\ 10 * call.result[k].price <= call.high + 5
       /\ (call.low % 10 = 0 /\ call.high % 10 = 0) =>
            /\ call.low <= 10 * call.result[k].price
            /\ 10 * call.result[k].price <= call.high

\* a call with high > low, neither a whole cent, that returns a level below
\* low
C12_Witness ==
  /\ call.fn = "calculateFibLevels"
  /\ call.high > call.low
  /\ call.low % 10 # 0
  /\ \E k \in 1..Len(call.result) : 10 * call.result[k].price < call.low

\* C13 as claimed: in every level list returned by calculateFibLevels the
\* prices are strictly decreasing as the ratio increases in an uptrend and
\* strictly increasing in a downtrend.
C13_StrictOrder ==
  call.fn = "calculateFibLevels" =>
    \A k \in 1..(Len(call.result) - 1) :
       /\ call.result[k].ratio < call.result[k + 1].ratio
       /\ IF call.trend = "uptrend"
            THEN call.result[k].price > call.result[k + 1].price
            ELSE call.result[k].price < call.result[k + 1].price

\* C13 as amended: as the ratio increases the prices never rise in an
\* uptrend and never fall in a downtrend, and they are strictly decreasing,
\* respectively strictly increasing, whenever high - low >= 0.09; on a
\* smaller range, high = low included, neighbouring levels may round to the
\* same price.
C13_WeakOrder ==
  call.fn = "calculateFibLevels" =>
    \A k \in 1..(Len(call.result) - 1) :
       /\ call.result[k].ratio < call.result[k + 1].ratio
       /\ IF call.trend = "uptrend"
            THEN call.result[k].price >= call.result[k + 1].price
            ELSE call.result[k].price <= call.result[k + 1].price
       /\ call.high - call.low >= 90 =>
            call.result[k].price # call.result[k + 1].price

\* a call with high > low that returns two neighbouring levels of the same
\* price, and another price besides
C13_Witness ==
  /\ call.fn = "calculateFibLevels"
  /\ call.high > call.low
  /\ \E k \in 1..(Len(call.result) - 1) :
        call.result[k].price = call.result[k + 1].price
  /\ call.result[1].price # call.result[Len(call.result)].price

\* C14: every call of calculateFibLevels returns exactly five levels, of
\* ratios 0.236, 0.382, 0.5, 0.618, 0.786 in that order, isGoldenZone true
\* for the 0.618 level alone, and the lights success, success, warning,
\* warning, danger whatever the trend.
C14_FixedLevels ==
  call.fn = "calculateFibLevels" =>
    /\ Len(call.result) = 5
    /\ [k \in 1..5 |-> call.result[k].ratio] = <<236, 382, 500, 618, 786>>
    /\ \A k \in 1..5 : call.result[k].isGoldenZone <=> (call.result[k].ratio = 618)
    /\ [k \in 1..5 |-> call.result[k].trafficLight]
         = <<"success", "success", "warning", "warning", "danger">>

\* a downtrend call on a zero range: still five levels, the fourth golden
C14_Witness ==
  /\ call.fn = "calculateFibLevels"
  /\ call.trend = "downtrend"
  /\ call.high = call.low
  /\ Len(call.result) = 5
  /\ call.result[4].isGoldenZone

\* the prices on and next to the levels: every boundary of a region and
\* both of its sides
BoundaryPrices(levels) ==
  {levels[k].price + d : k \in 1..Len(levels), d \in (-MaxOffset)..MaxOffset}

\* the signal of the call's levels and trend at another current price
SignalAt(p) == determineSignal(p, call.levels, call.trend).signal

\* the place of a signal along the price line: in both trends danger lies
\* below warning, and warning below success
SignalRank(signal) ==
  CASE signal = "danger" -> 0 [] signal = "warning" -> 1 [] signal = "success" -> 2

\* every price gets one of the three signals, and the signal never reverts
\* as the price rises
SignalRegionsInOrder ==
  /\ \A p \in BoundaryPrices(call.levels) :
        SignalAt(p) \in {"danger", "warning", "success"}
  /\ \A p, q \in BoundaryPrices(call.levels) :
        p <= q => SignalRank(SignalAt(p)) <= SignalRank(SignalAt(q))

SignalReachable(signal) ==
  \E p \in BoundaryPrices(call.levels) : SignalAt(p) = signal

\* C15 as claimed: for levels of calculateFibLevels and the same trend, the
\* branches of determineSignal cut the price line into exactly three
\* contiguous regions: every price gets exactly one signal, the signal never
\* reverts as the price moves one way, and each of the three signals is
\* reached by some price.
C15_ThreeRegions ==
  call.fn = "determineSignal" =>
    /\ SignalRegionsInOrder
    /\ \A signal \in {"danger", "warning", "success"} : SignalReachable(signal)

\* C15 as amended: every price gets exactly one signal, the signal never
\* reverts as the price moves one way, success and danger are each reached
\* by some price, and warning is reached by some price exactly when the
\* prices of the 0.236 and 0.618 levels differ; when they are equal, as with
\* high = low, there are two regions.
C15_UpToThreeRegions ==
  call.fn = "determineSignal" =>
    /\ SignalRegionsInOrder
    /\ SignalReachable("danger")
    /\ SignalReachable("success")
    /\ SignalReachable("warning")
         <=> (LevelAt(call.levels, 236).price # LevelAt(call.levels, 618).price)

\* a call on the levels of a zero range, the price on the one level
C15_Witness ==
  /\ call.fn = "determineSignal"
  /\ LevelAt(call.levels, 236).price = LevelAt(call.levels, 618).price
  /\ call.currentPrice = LevelAt(call.levels, 618).price
  /\ call.result.signal # "warning"
  /\ ~SignalReachable("warning")

\* C20: on a non-empty series analyzeTicker is the composition of the
\* components over the full series: high and low are the swing points of
\* the scan without lookback (the first bar of the largest high, the first
\* bar of the smallest low), trend is detectTrend of that pair, levels is
\* calculateFibLevels(high.price, low.price, trend), signal and reason are
\* determineSignal(currentPrice, levels, trend), range is high.price -
\* low.price to 2 decimals, ticker is the input in upper case, and
\* currentPrice is the input unchanged.
C20_Composition ==
  (call.fn = "analyzeTicker" /\ Len(call.prices) > 0) =>
    LET swing == detectSwingPoints(call.prices, UNDEFINED)
        peak  == call.prices[FirstMaxHigh(call.prices)]
        floor == call.prices[FirstMinLow(call.prices)]
        r     == call.result
    IN  /\ ~Threw(r)
        /\ r.high = swing.swingHigh
        /\ r.high = [price |-> Fin(peak.high), date |-> peak.date]
        /\ r.low = swing.swingLow
        /\ r.low = [price |-> Fin(floor.low), date |-> floor.date]
        /\ r.trend = detectTrend(swing)
        /\ r.levels = calculateFibLevels(peak.high, floor.low, r.trend)
        /\ r.signal = determineSignal(call.currentPrice, r.levels, r.trend).signal
        /\ r.signalReason = determineSignal(call.currentPrice, r.levels, r.trend).reason
        /\ r.range = peak.high - floor.low
        /\ Len(r.ticker) = Len(call.ticker)
        /\ \A k \in 1..Len(r.ticker) :
              r.ticker[k] = IF call.ticker[k] \in 97..122 THEN call.ticker[k] - 32
                            ELSE call.ticker[k]
        /\ r.currentPrice = call.currentPrice

\* a call on three bars whose middle bar ties the first bar's high: the
\* first bar is the peak, no low is dated before it, and the trend is down
C20_Witness ==
  /\ call.fn = "analyzeTicker"
  /\ Len(call.prices) = 3
  /\ call.prices[2].high = call.prices[1].high
  /\ call.prices[3].high < call.prices[1].high
  /\ call.result.high.date = call.prices[1].date
  /\ call.result.range > 0
  /\ call.result.trend = "downtrend"
  /\ call.result.ticker # call.ticker

\* C22 as claimed: when high == low, calculateFibLevels returns, for either
\* trend, five levels whose prices all equal that single price.
C22_ZeroRangeAtPrice ==
  (call.fn = "calculateFibLevels" /\ call.high = call.low) =>
    /\ Len(call.result) = 5
    /\ \A k \in 1..Len(call.result) : 10 * call.result[k].price = call.high

\* C22 as amended: when high == low, calculateFibLevels returns, for either
\* trend, five levels whose prices are all the same number of cents, the one
\* within 0.005 of that single price, and so the price itself when it is a
\* whole number of cents.
C22_ZeroRangeAtRoundedPrice ==
  (call.fn = "calculateFibLevels" /\ call.high = call.low) =>
    /\ Len(call.result) = 5
    /\ \A k \in 1..Len(call.result) :
          /\ call.result[k].price = call.result[1].price
          /\ call.high - 5 <= 10 * call.result[k].price
          /\ 10 * call.result[k].price <= call.high + 5
          /\ call.high % 10 = 0 => 10 * call.result[k].price = call.high

\* a call with high = low = 1.005 that returns 1.00 five times
C22_Witness ==
  /\ call.fn = "calculateFibLevels"
  /\ call.high = call.low
  /\ call.high % 10 # 0
  /\ Len(call.result) = 5
  /\ \A k \in 1..Len(call.result) :
        /\ call.result[k].price = call.result[1].price
        /\ 10 * call.result[k].price < call.high

\* the interior bars of ps for the lookback, 1-based: at least lookback bars
\* on both sides
Interior(ps, lookback) ==
  {k \in 1..Len(ps) : lookback < k /\ k <= Len(ps) - lookback}

\* the interior bars whose high is the maximum, whose low is the minimum, of
\* the closed window around them
HighCandidates(ps, lookback) ==
  {k \in Interior(ps, lookback) :
     \A j \in (k - lookback)..(k + lookback) : ps[j].high <= ps[k].high}

LowCandidates(ps, lookback) ==
  {k \in Interior(ps, lookback) :
     \A j \in (k - lookback)..(k + lookback) : ps[j].low >= ps[k].low}

\* the earliest candidate with the largest high, with the smallest low
BestHigh(ps, cands) ==
  CHOOSE k \in cands :
    \A j \in cands : ps[j].high < ps[k].high \/ (ps[j].high = ps[k].high /\ j >= k)

BestLow(ps, cands) ==
  CHOOSE k \in cands :
    \A j \in cands : ps[j].low > ps[k].low \/ (ps[j].low = ps[k].low /\ j >= k)

\* C24: in rolling-window mode with lookback L, whenever some interior bar
\* has a high that is the maximum of its closed window [i-L, i+L],
\* detectSwingPoints returns as swingHigh the price and date of the
\* qualifying interior bar with the largest high, the earliest on ties; and
\* as swingLow the qualifying interior bar with the smallest low, the
\* earliest on ties, whenever some interior bar qualifies for the low.
C24_RollingCandidates ==
  (call.fn = "detectSwingPoints" /\ call.lookback # UNDEFINED /\ Len(call.prices) > 0) =>
    /\ HighCandidates(call.prices, call.lookback) # {} =>
         call.result.swingHigh =
           [price |-> Fin(call.prices[BestHigh(call.prices,
                            HighCandidates(call.prices, call.lookback))].high),
            date  |-> call.prices[BestHigh(call.prices,
                            HighCandidates(call.prices, call.lookback))].date]
    /\ LowCandidates(call.prices, call.lookback) # {} =>
         call.result.swingLow =
           [price |-> Fin(call.prices[BestLow(call.prices,
                            LowCandidates(call.prices, call.lookback))].low),
            date  |-> call.prices[BestLow(call.prices,
                            LowCandidates(call.prices, call.lookback))].date]

\* five bars with highs 2 1 2 1 2 and lookback 1: the second and the fourth
\* bar are low candidates of the same low, the third is the only high
\* candidate while the first bar has the same high, and the call returns the
\* third bar as swingHigh and the second as swingLow
C24_Witness ==
  /\ call.fn = "detectSwingPoints"
  /\ call.lookback = 1
  /\ Len(call.prices) = 5
  /\ HighCandidates(call.prices, 1) = {3}
  /\ call.prices[1].high = call.prices[3].high
  /\ LowCandidates(call.prices, 1) = {2, 4}
  /\ call.prices[2].low = call.prices[4].low
  /\ call.result.swingHigh.date = call.prices[3].date
  /\ call.result.swingLow.date = call.prices[2].date

\* C25: in rolling-window mode, if no interior bar qualifies as a swing-high
\* candidate the returned swingHigh is the price and date of the first bar
\* with the largest high of the whole input, as in global mode, and likewise
\* swingLow is the first bar with the smallest low when no interior bar
\* qualifies for the low; for every non-empty input with len <= 2*L both
\* are so.
C25_RollingFallback ==
  (call.fn = "detectSwingPoints" /\ call.lookback # UNDEFINED /\ Len(call.prices) > 0) =>
    /\ HighCandidates(call.prices, call.lookback) = {} =>
         call.result.swingHigh =
           [price |-> Fin(call.prices[FirstMaxHigh(call.prices)].high),
            date  |-> call.prices[FirstMaxHigh(call.prices)].date]
    /\ LowCandidates(call.prices, call.lookback) = {} =>
         call.result.swingLow =
           [price |-> Fin(call.prices[FirstMinLow(call.prices)].low),
            date  |-> call.prices[FirstMinLow(call.prices)].date]
    /\ Len(call.prices) <= 2 * call.lookback =>
         /\ HighCandidates(call.prices, call.lookback) = {}
         /\ LowCandidates(call.prices, call.lookback) = {}

\* three bars with highs 2 1 2 and lookback 1: the one interior bar is no
\* high candidate, and the call returns the first bar, not the third
C25_Witness ==
  /\ call.fn = "detectSwingPoints"
  /\ call.lookback = 1
  /\ Len(call.prices) = 3
  /\ Interior(call.prices, 1) = {2}
  /\ HighCandidates(call.prices, 1) = {}
  /\ call.prices[1].high = call.prices[3].high
  /\ call.result.swingHigh.date = call.prices[1].date

\* every bar of the series has a higher high, low and close than the bar
\* before it
StrictlyRising(ps) ==
  \A k \in 2..Len(ps) :
     /\ ps[k].high > ps[k - 1].high
     /\ ps[k].low > ps[k - 1].low
     /\ ps[k].close > ps[k - 1].close

\* C21: for a strictly rising series of at least two bars from a low of
\* 100.00 on the first day to a high of 200.00 on the last day (the 130-bar
\* series among them), analyzeTicker reports the swing low 100.00 on the
\* first day, the swing high 200.00 on the last day, trend = uptrend, the
\* 0.618 level at 138.20 and the 0.236 level at 176.40, and with
\* currentPrice = 180.00 the signal is success.
C21_RisingScenario ==
  (/\ call.fn = "analyzeTicker"
   /\ Len(call.prices) >= 2
   /\ StrictlyRising(call.prices)
   /\ call.prices[1].low = 10000
   /\ call.prices[Len(call.prices)].high = 20000) =>
    /\ ~Threw(call.result)
    /\ call.result.low = [price |-> Fin(10000), date |-> call.prices[1].date]
    /\ call.result.high = [price |-> Fin(20000),
                           date |-> call.prices[Len(call.prices)].date]
    /\ call.result.trend = "uptrend"
    /\ LevelAt(call.result.levels, 618).price = 13820
    /\ LevelAt(call.result.levels, 618).isGoldenZone
    /\ LevelAt(call.result.levels, 236).price = 17640
    /\ (call.currentPrice = 18000 => call.result.signal = "success")

\* the 130-bar series in even steps, asked at 180.00
C21_Witness ==
  /\ call.fn = "analyzeTicker"
  /\ Len(call.prices) = 130
  /\ StrictlyRising(call.prices)
  /\ call.prices[1].low = 10000
  /\ call.prices[2].low = 10076
  /\ call.prices[130].high = 20000
  /\ call.currentPrice = 18000
  /\ call.result.signal = "success"

(***************************************************************************)
(* Properties of backtestGoldenZone, checked under SpecBacktest.           *)
(***************************************************************************)
\* the 0-based index of the bar a touch is dated; dates are distinct
TouchIndex(t) == CHOOSE k \in 0..(Len(prices) - 1) : prices[k + 1].date = t.date

Distance(a, b) == IF a >= b THEN a - b ELSE b - a

\* the swing points of the trailing window of bar k
WindowSwing(k) == detectSwingPoints(TrailingWindow(prices, k), SWING_LOOKBACK)

WindowRange(k) == WindowSwing(k).swingHigh.price.c - WindowSwing(k).swingLow.price.c

\* the price of the 61.8 % level computed from the trailing window of bar k
WindowGolden(k) ==
  LevelPrice(WindowSwing(k).swingHigh.price.c, WindowSwing(k).swingLow.price.c,
             detectTrend(WindowSwing(k)), GOLDEN_RATIO)

\* range > 0 and |close - goldenLevel.price| <= range * 0.015, in exact
\* decimal arithmetic (units of 0.00001)
InBand(k) ==
  /\ WindowRange(k) > 0
  /\ Distance(prices[k + 1].close, WindowGolden(k)) * 1000
       <= WindowRange(k) * TOUCH_TOLERANCE

\* C5: a touch is recorded at bar i only if the swing range of the trailing
\* window is strictly positive and |prices[i].close - goldenLevel.price| <=
\* range * TOUCH_TOLERANCE, goldenLevel being the 61.8 % level of that window.
C5_TouchOnlyInBand ==
  \A n \in 1..Len(touches) : InBand(TouchIndex(touches[n]))

\* a recorded touch whose close is off the level, inside the band
C5_Witness ==
  \E n \in 1..Len(touches) :
     /\ touches[n].touchPrice # touches[n].goldenLevelPrice
     /\ touches[n].goldenLevelPrice = WindowGolden(TouchIndex(touches[n]))

\* C6: any two distinct recorded touches are at bar indices at least
\* COOLDOWN_BARS apart, in the list being built and in the result returned.
C6_Cooldown ==
  /\ \A m, n \in 1..Len(touches) :
        m # n => Distance(TouchIndex(touches[m]), TouchIndex(touches[n])) >= COOLDOWN_BARS
  /\ result.returned =>
       \A m, n \in 1..Len(result.value.touches) :
          m # n => Distance(TouchIndex(result.value.touches[m]),
                            TouchIndex(result.value.touches[n])) >= COOLDOWN_BARS

\* a result with two touches exactly COOLDOWN_BARS apart
C6_Witness ==
  /\ result.returned
  /\ \E m, n \in 1..Len(result.value.touches) :
        TouchIndex(result.value.touches[n]) =
          TouchIndex(result.value.touches[m]) + COOLDOWN_BARS

\* C7: every qualifying revisit is logged.  For every index k with
\* SWING_WINDOW <= k < Len(prices) - OUTCOME_HORIZON that is at least
\* COOLDOWN_BARS after the most recent touch recorded before it (or has none
\* before it), if the trailing window's range is > 0 and
\* |prices[k].close - goldenLevel.price| <= range * 0.015, the result holds a
\* touch dated prices[k].date.
C7_EveryRevisitLogged ==
  result.returned =>
    \A k \in SWING_WINDOW..(Len(prices) - OUTCOME_HORIZON - 1) :
       (/\ \A n \in 1..Len(result.value.touches) :
              TouchIndex(result.value.touches[n]) < k
                => k - TouchIndex(result.value.touches[n]) >= COOLDOWN_BARS
        /\ InBand(k))
       => \E n \in 1..Len(result.value.touches) :
             result.value.touches[n].date = prices[k + 1].date

\* C8: for a touch at bar k, in an uptrend the outcome is success exactly
\* when prices[k + 30].close > prices[k].close, in a downtrend exactly when
\* prices[k + 30].close < prices[k].close; with equal closes it is fail in
\* both trends.
C8_OutcomeByCloses ==
  \A n \in 1..Len(touches) :
     LET k           == TouchIndex(touches[n])
         touchClose  == prices[k + 1].close
         futureClose == prices[k + OUTCOME_HORIZON + 1].close
     IN  touches[n].outcome =
           IF touches[n].trend = "uptrend"
             THEN (IF futureClose > touchClose THEN "success" ELSE "fail")
             ELSE (IF futureClose < touchClose THEN "success" ELSE "fail")

\* a touch whose close is met again after the horizon: fail
C8_Witness ==
  \E n \in 1..Len(touches) :
     /\ prices[TouchIndex(touches[n]) + OUTCOME_HORIZON + 1].close
          = prices[TouchIndex(touches[n]) + 1].close
     /\ touches[n].outcome = "fail"

\* C9: the outcome of every recorded touch agrees with the sign of its
\* recorded percentChange (after the rounding to 2 decimals): success if and
\* only if percentChange > 0 in an uptrend, < 0 in a downtrend; a recorded
\* percentChange of 0 is a fail.
C9_OutcomeBySign ==
  \A n \in 1..Len(touches) :
     (touches[n].outcome = "success") <=>
       (IF touches[n].trend = "uptrend" THEN touches[n].percentChange > 0
        ELSE touches[n].percentChange < 0)

\* C10: called with at most SWING_WINDOW + OUTCOME_HORIZON bars,
\* backtestGoldenZone fails with InsufficientDataError and returns no
\* BacktestResult.
C10_InsufficientData ==
  (pc = "done" /\ Len(prices) <= SWING_WINDOW + OUTCOME_HORIZON) =>
    (Threw(result) /\ ~result.returned)

\* C16: in every result, successes is the number of touches of outcome
\* success, failures is the number of touches less successes (so the two add
\* up to the number of touches), and winRate is successes / total * 100
\* rounded to 1 decimal when there is a touch (the tenth nearest to the exact
\* quotient) and 0 when there is none; 0 <= winRate <= 100.
C16_Aggregates ==
  result.returned =>
    LET v     == result.value
        total == Len(v.touches)
        won   == Cardinality({n \in 1..total : v.touches[n].outcome = "success"})
    IN  /\ v.successes = won
        /\ v.failures = total - won
        /\ v.successes + v.failures = total
        /\ total = 0 => v.winRate = 0
        /\ total > 0 => /\ 2 * (v.winRate * total - 1000 * won) <= total
                        /\ 2 * (1000 * won - v.winRate * total) <= total
        /\ 0 <= v.winRate
        /\ v.winRate <= 1000

\* a result of three touches, not all of one outcome: the win rate is 33.3
\* or 66.7
C16_Witness ==
  /\ result.returned
  /\ Len(result.value.touches) = 3
  /\ result.value.successes > 0
  /\ result.value.failures > 0
  /\ result.value.winRate \in {333, 667}

\* C17: a second run of backtestGoldenZone on the same ticker and the same
\* price series returns a BacktestResult identical to the first (touches and
\* their order, counts, win rate, summary): lastTouchIndex and the touch list
\* start fresh; and no step of a run changes the ticker or the price series.
C17_SameResultTwice ==
  /\ []((result.returned /\ earlier.returned) => result.value = earlier.value)
  /\ [][pc # "idle" => (prices' = prices /\ ticker' = ticker)]_vars

\* a second run has returned, after a first run that recorded touches up to
\* the last bars it scanned
C17_Witness ==
  /\ result.returned
  /\ earlier.returned
  /\ Len(earlier.value.touches) >= 2
  /\ lastTouchIndex.inf = 0
  /\ lastTouchIndex.c >= SWING_WINDOW + COOLDOWN_BARS

\* C18: on a series of more than SWING_WINDOW + OUTCOME_HORIZON bars of
\* positive prices backtestGoldenZone terminates and returns a
\* BacktestResult, nothing thrown; every index an iteration reads (the
\* window i - 120 .. i - 1, the bar i, the horizon bar i + 30) lies in
\* 0 .. Len(prices) - 1; and priceAfter30 of each touch is the close of the
\* bar 30 places after the touch bar.
C18_ReturnsInBounds ==
  /\ []((pc = "loop" /\ i < stopAt) =>
          /\ i - SWING_WINDOW >= 0
          /\ i + OUTCOME_HORIZON <= Len(prices) - 1)
  /\ [](\A n \in 1..Len(touches) :
          touches[n].priceAfter30 =
            prices[TouchIndex(touches[n]) + OUTCOME_HORIZON + 1].close)
  /\ [](pc = "done" => (result.returned /\ ~Threw(result)))
  /\ (pc = "loop" /\ Len(prices) > SWING_WINDOW + OUTCOME_HORIZON)
       ~> (pc = "done" /\ result.returned /\ result.value.totalBars = Len(prices))

\* a run on the longest series has returned a touch whose price after the
\* horizon is not the touch price
C18_Witness ==
  /\ pc = "done"
  /\ Len(prices) = MaxLen
  /\ result.returned
  /\ \E n \in 1..Len(result.value.touches) :
        /\ result.value.touches[n].priceAfter30 # result.value.touches[n].touchPrice
        /\ result.value.touches[n].priceAfter30 =
             prices[TouchIndex(result.value.touches[n]) + OUTCOME_HORIZON + 1].close

\* the dates of a touch list are strictly ascending
AscendingDates(ts) ==
  \A m, n \in 1..Len(ts) : m < n => StrLt(ts[m].date, ts[n].date)

\* C19: on a series of strictly increasing dates the touch list is ordered
\* by date strictly ascending, while it is built and in the result returned,
\* and an iteration only appends: the touches recorded before it stay as
\* they are, none modified, none removed.
C19_AppendOnlyByDate ==
  /\ [](AscendingDates(touches))
  /\ [](result.returned => AscendingDates(result.value.touches))
  /\ [][pc = "loop" =>
          /\ Len(touches') >= Len(touches)
          /\ SubSeq(touches', 1, Len(touches)) = touches]_vars

\* a third touch has been appended to two earlier ones
C19_Witness ==
  /\ pc = "loop"
  /\ Len(touches) = 3
  /\ lastTouchIndex = Fin(i - 1)
  /\ StrLt(touches[2].date, touches[3].date)
\* low <= close <= high in every bar
ConsistentBars(ps) ==
  \A k \in 1..Len(ps) : ps[k].low <= ps[k].close /\ ps[k].close <= ps[k].high

\* the best candidates of the window are interior bars at most 2 * lookback
\* apart, so that their closed windows share a bar
CandidatesOverlap(w, lookback) ==
  Distance(BestHigh(w, HighCandidates(w, lookback)),
           BestLow(w, LowCandidates(w, lookback))) <= 2 * lookback

\* the loop is at a bar for which it calls calculateFibLevels
CallsCalculator == pc = "loop" /\ i < stopAt /\ ~InCooldown(i, lastTouchIndex)

\* C26 as claimed: every call that backtestGoldenZone makes to
\* calculateFibLevels has high >= low: for every 120-bar window of
\* internally consistent bars the rolling-mode swingHigh.price (lookback 10)
\* is never below the rolling-mode swingLow.price.
C26_HighNotBelowLow ==
  (CallsCalculator /\ ConsistentBars(prices)) =>
    \E swing \in {WindowSwing(i)} : ~NumLt(swing.swingHigh.price, swing.swingLow.price)

\* C26 as amended: for a 120-bar window of internally consistent bars the
\* rolling-mode swingHigh.price (lookback 10) is not below the rolling-mode
\* swingLow.price whenever no interior bar qualifies for the high, or none
\* for the low, or the two bars returned are at most 2 * 10 bars apart; and
\* no touch is recorded for a window whose swingHigh.price is below its
\* swingLow.price.
C26_HighNotBelowLowNearby ==
  /\ (CallsCalculator /\ ConsistentBars(prices)) =>
       \E w \in {TrailingWindow(prices, i)}, swing \in {WindowSwing(i)} :
          (\/ HighCandidates(w, SWING_LOOKBACK) = {}
           \/ LowCandidates(w, SWING_LOOKBACK) = {}
           \/ CandidatesOverlap(w, SWING_LOOKBACK)) =>
            ~NumLt(swing.swingHigh.price, swing.swingLow.price)
  /\ \A n \in 1..Len(touches) :
        \E swing \in {WindowSwing(TouchIndex(touches[n]))} :
           ~NumLt(swing.swingHigh.price, swing.swingLow.price)

\* the loop at a window whose best high candidate, at 50.00, and best low
\* candidate, at 100.00, are more than 2 * 10 bars apart
C26_Witness ==
  /\ CallsCalculator
  /\ ConsistentBars(prices)
  /\ HighCandidates(TrailingWindow(prices, i), SWING_LOOKBACK) # {}
  /\ LowCandidates(TrailingWindow(prices, i), SWING_LOOKBACK) # {}
  /\ ~CandidatesOverlap(TrailingWindow(prices, i), SWING_LOOKBACK)
  /\ WindowSwing(i).swingHigh.price = Fin(5000)
  /\ WindowSwing(i).swingLow.price = Fin(10000)
  /\ touches = <<>>

\* a series that agrees with ps on the bars k - SWING_WINDOW .. k - 1 and on
\* all dates, and is different elsewhere: 0.01 before those bars, the price
\* g at bar k, 999.99 after it
AlteredOutside(ps, k, g) ==
  [j \in 1..Len(ps) |->
     IF j - 1 < k - SWING_WINDOW THEN Bar(ps[j].date, 1, 1, 1)
     ELSE IF j - 1 < k THEN ps[j]
     ELSE IF j - 1 = k THEN Bar(ps[j].date, g, g, g)
     ELSE Bar(ps[j].date, 99999, 99999, 99999)]

\* what the iteration at the bar of the touch t finds on the altered series
ExamineAltered(t) ==
  Examine(AlteredOutside(prices, TouchIndex(t), t.goldenLevelPrice), TouchIndex(t))

\* C27: the goldenLevelPrice and trend evaluated at index i depend only on
\* the 120 bars i-120 .. i-1: for every touch recorded at a bar i, the
\* iteration at i on a series that agrees on those 120 bars and differs in
\* every other bar (bar i on the level, so that it is a touch again) finds
\* the same goldenLevelPrice and the same trend.
C27_NoLookAhead ==
  \A n \in 1..Len(touches) :
     \E found \in {ExamineAltered(touches[n])} :
        /\ found.touch
        /\ found.entry.goldenLevelPrice = touches[n].goldenLevelPrice
        /\ found.entry.trend = touches[n].trend

\* a touch off the level at a bar past the first window, 30 bars before
\* the end of the series at the earliest: bars before the window, the bar
\* itself and the bars after it all differ in the altered series, down to
\* the close 30 bars on
C27_Witness ==
  \E n \in 1..Len(touches) :
     /\ TouchIndex(touches[n]) > SWING_WINDOW
     /\ touches[n].touchPrice # touches[n].goldenLevelPrice
     /\ \E found \in {ExamineAltered(touches[n])} :
           /\ found.touch
           /\ found.entry.priceAfter30 # touches[n].priceAfter30
           /\ found.entry.goldenLevelPrice = touches[n].goldenLevelPrice

\* every bar has high = low = close = the price of the first bar
FlatSeries(ps) ==
  \A k \in 1..Len(ps) :
     /\ ps[k].high = ps[1].close
     /\ ps[k].low = ps[1].close
     /\ ps[k].close = ps[1].close

\* C23: for a flat price series of any length, backtestGoldenZone records no
\* touch in any iteration and returns a result with an empty touch list,
\* successes = 0, failures = 0 and winRate = 0.
C23_FlatSeriesNoTouch ==
  FlatSeries(prices) =>
    /\ touches = <<>>
    /\ lastTouchIndex = NegInfinity
    /\ result.returned =>
         /\ result.value.totalBars = Len(prices)
         /\ result.value.touches = <<>>
         /\ result.value.successes = 0
         /\ result.value.failures = 0
         /\ result.value.winRate = 0

\* a flat series of MaxLen bars, walked to its end, has returned
C23_Witness ==
  /\ pc = "done"
  /\ Len(prices) = MaxLen
  /\ FlatSeries(prices)
  /\ i = stopAt
  /\ result.returned
  /\ result.value.touches = <<>>

(***************************************************************************)
(* Properties of the Dashboard, checked under SpecDashboard and            *)
(* SpecDashboardFair.                                                      *)
(***************************************************************************)
\* C28: the state of the Dashboard never holds a non-null error together
\* with non-null fibData and prices, after any sequence of searches: a
\* search that ends in an error, by an error payload or by a thrown
\* exception, leaves no results of an earlier search.
C28_NoErrorWithResults ==
  ~(error # NULL /\ fibData # NULL /\ dashPrices # NULL)

\* C29: every invocation of handleSearch sets isLoading to true, and
\* isLoading is eventually false again, on the three paths; isLoading is
\* true exactly while an invocation waits, the input is disabled exactly
\* then, and at most one invocation waits at a time.
C29_LoadingEnds ==
  /\ [](Len(searches) <= 1)
  /\ [](isLoading <=> searches # <<>>)
  /\ [](InputDisabled <=> searches # <<>>)
  /\ [][Len(searches') > Len(searches) => isLoading']_vars
  /\ [][(isLoading /\ ~isLoading') => Len(searches') < Len(searches)]_vars
  /\ (isLoading ~> ~isLoading)

\* a second search waits for the body of its response, the results of the
\* first still in the state
C29_Witness ==
  /\ isLoading
  /\ Len(searches) = 1
  /\ searches[1].at = "json"
  /\ fibData # NULL
  /\ error = NULL

(***************************************************************************)
(* Properties of getHistoricalPrices, checked under SpecFmp.               *)
(***************************************************************************)
\* a call resolves in this step
Resolves == lastReturn' # lastReturn

\* C30: getHistoricalPrices consults the file cache first.  Once a series is
\* cached for a symbol its file never changes, and a call for the symbol in
\* any letter case made while the file exists resolves at once to the cached
\* series with error = null, without a request and without writing; and a
\* call that resolves to an error leaves every file of the cache as it was.
C30_CacheFirst ==
  /\ [][\A key \in CACHE_KEYS : cache[key] # NULL => cache'[key] = cache[key]]_vars
  /\ [][\A symbol \in SYMBOLS :
          (Resolves /\ lastReturn'.some.symbol = symbol /\ requests' = requests
             /\ cache[ToUpperCase(symbol)] # NULL) =>
            /\ lastReturn'.some.data = cache[ToUpperCase(symbol)]
            /\ lastReturn'.some.error = NULL
            /\ ~lastReturn'.some.fetched
            /\ cache' = cache]_vars
  /\ [][(Resolves /\ lastReturn'.some.error # NULL) => cache' = cache]_vars

====
